---- MODULE Spec2Model ----
(***************************************************************************)
(* Screen Translator: the UI process (src/src/main.py, src/src/ui) and the *)
(* ProcessingPipeline worker process (src/src/pipeline.py), connected by   *)
(* two multiprocessing queues.                                             *)
(***************************************************************************)
EXTENDS Integers, Sequences, FiniteSets, TLC

VARIABLES
    ui,             \* UI process: "running", "joining" while quit_app waits, then "quit"
    snipping,       \* TRUE while a SnippingWidget is shown (start_capture .. mouseReleaseEvent)
    command_queue,  \* multiprocessing Queue UI -> worker
    result_queue,   \* multiprocessing Queue worker -> UI
    pc,             \* position of ProcessingPipeline.run
    running,        \* ProcessingPipeline.running
    cur,            \* the command process_region is working on
    image,          \* local `image` of process_region
    ocr_results,    \* local `ocr_results` of process_region
    screen_capture, \* ProcessingPipeline.screen_capture: "none", "open", "closed"
    ocr_engine,     \* ProcessingPipeline.ocr_engine constructed
    translator,     \* ProcessingPipeline.translator: NoTranslator or the Translator's engines
    enqSeq,         \* history: every command put on command_queue, in put order
    deqSeq,         \* history: every command the worker got from command_queue
    emitLog,        \* history: every message put on result_queue, with the command it answers
    callLog,        \* history: every provider call process_region made, with what it returned
    handled,        \* history: every message check_results passed to handle_result, in order
    sc_pc,          \* position of ScreenCapture.capture_scrolling_region
    max_pages,      \* its argument max_pages
    loop_i,         \* its loop variable i (iterations of the for loop completed)
    captured_images,\* its local list captured_images
    identical_count,\* its local identical_count
    scroll_result,  \* the value it returned
    shots,          \* history: every value capture_region returned to it, in call order
    in_context,     \* `with ScreenCapture() as c`: "out", "in", "exited"
    sct_closes,     \* history: number of times self.sct.close() was performed
    st_pc,          \* position of ImageStitcher.stitch_images
    st_images,      \* its argument images
    st_i,           \* its loop variable i
    st_result,      \* its local result, and the value it returned
    merges,         \* history: every _stitch_two call, with its arguments and result
    t_pc,           \* Translator: "new" before __init__ ran, then "ready"
    config,         \* the content _load_config returns
    translator_obj, \* the Translator object: engine_type, gemini_model, translator, gemini_mode
    google_inits,   \* history: number of _init_google_translate calls
    last_call,      \* history: the latest translate / translate_batch call and what it did
    ocr_pc,         \* OCREngine.detect_and_recognize: "start", then "returned"
    ocr_data,       \* the boxes pytesseract.image_to_data reports: native conf and text
    ocr_raised,     \* the recognition engine raised in this call
    ocr_ret         \* the value detect_and_recognize returned

pollVars == <<handled>>

stitchVars == <<st_pc, st_images, st_i, st_result, merges>>

translatorVars == <<t_pc, config, translator_obj, google_inits, last_call>>

ocrVars == <<ocr_pc, ocr_data, ocr_raised, ocr_ret>>

captureVars == <<sc_pc, max_pages, loop_i, captured_images, identical_count,
                 scroll_result, shots, in_context, sct_closes>>

vars == <<ui, snipping, command_queue, result_queue, pc, running, cur, image,
          ocr_results, screen_capture, ocr_engine, translator, enqSeq, deqSeq, emitLog,
          callLog, pollVars, captureVars, stitchVars, translatorVars, ocrVars>>

pipelineVars == <<ui, snipping, command_queue, result_queue, pc, running, cur, image,
                  ocr_results, screen_capture, ocr_engine, translator, enqSeq, deqSeq,
                  emitLog, callLog, pollVars>>

uiVars == <<ui, snipping>>
workerVars == <<pc, running, cur, image, ocr_results, screen_capture, ocr_engine, translator>>
procVars == <<cur, image, ocr_results>>
providerVars == <<screen_capture, ocr_engine, translator>>

----------------------------------------------------------------------------
(* Bounds of the model *)

\* number of region / reload_config commands the UI issues in one run
MaxCmds == 2

\* arguments the region_selected slot is invoked with
Dims == {-1, 0, 10}
Coords == {0}

\* sizes of the rectangle the user drags in the snipping widget
SelDims == {9, 10}

\* screen.devicePixelRatio() as <<numerator, denominator>> (150% scaling)
DPRs == {<<3, 2>>}

\* what the recognition provider returns
OcrOutcomes == {<<>>, <<"a", "b">>}

\* what the engines answer: text, or the request raises
GeminiOutcomes == {"text", "raise"}
GoogleOutcomes == {"text", "raise"}
\* what a Gemini request made through Translator.translate can come back with:
\* text, a response whose text is empty or only whitespace, a response with
\* no text (blocked), or an exception
ResponseOutcomes == {"text", "blank", "blocked", "raise"}
\* the longest list handed to Translator.translate_batch
MaxBatch == 2
\* texts, images and prompts handed to Translator.translate
Texts == {"", " ", "a"}
Images == {"None", "image"}
Prompts == {"None", "override"}
\* the texts for which `not text or not text.strip()` holds
BlankTexts == {"", " "}
\* prompt=None
NoPrompt == "None"

\* time.time() difference measured around the translation (a positive time)
Durations == {1}

----------------------------------------------------------------------------
(* Values *)

NoCmd == [id |-> 0, cmd |-> [type |-> "none"]]
NoImage == "None"

\* the absence value of the capture provider and of the stitcher, written
\* as the image with no rows (images are sequences of pixel rows)
None == <<>>

\* capture.py:85 max_pages: int = 20
DefaultMaxPages == 20

\* ProcessingPipeline.translator before a Translator is constructed
NoTranslator == [engine_type |-> "none", gemini_model |-> FALSE, translator |-> FALSE,
                 gemini_mode |-> "unset"]

\* snipping.py:106 SnippingWidget emits only selections of at least 10x10
MinSelection == 10

\* int(v * device_pixel_ratio) for v >= 0
PhysPixels(v, dpr) == (v * dpr[1]) \div dpr[2]

\* " ".join(texts)
RECURSIVE Join(_)
Join(texts) ==
    IF Len(texts) = 0 THEN ""
    ELSE IF Len(texts) = 1 THEN texts[1]
    ELSE texts[1] \o " " \o Join(Tail(texts))

\* the id the next command put on the queue gets (history only)
NextId == Len(enqSeq) + 1

----------------------------------------------------------------------------
(* Queue operations *)

\* command_queue.put(c)
PutCommand(c) ==
    /\ command_queue' = Append(command_queue, [id |-> NextId, cmd |-> c])
    /\ enqSeq' = Append(enqSeq, [id |-> NextId, cmd |-> c])

\* result_queue.put(m), m answering command id (0: initialization)
PutResult(id, m) ==
    /\ result_queue' = Append(result_queue, m)
    /\ emitLog' = Append(emitLog, [cmd |-> id, msg |-> m])

ErrorMsg(e) == [type |-> "error", error |-> e]

----------------------------------------------------------------------------
\* the two processes after construction, with the commands in `queued`
\* already put on the command queue
PipelineInit(queued) ==
    /\ ui = "running"
    /\ snipping = FALSE
    /\ command_queue = queued
    /\ result_queue = <<>>
    /\ pc = "init"
    /\ running = TRUE
    /\ cur = NoCmd
    /\ image = NoImage
    /\ ocr_results = <<>>
    /\ screen_capture = "none"
    /\ ocr_engine = FALSE
    /\ translator = NoTranslator
    /\ enqSeq = queued
    /\ deqSeq = <<>>
    /\ emitLog = <<>>
    /\ callLog = <<>>
    /\ handled = <<>>

\* a ScreenCapture after __init__ (capture.py:17-19), about to be asked for
\* a scrolling capture of at most mp pages
ScreenCaptureInit(mp) ==
    /\ sc_pc = "start"
    /\ max_pages = mp
    /\ loop_i = 0
    /\ captured_images = <<>>
    /\ identical_count = 0
    /\ scroll_result = None
    /\ shots = <<>>
    /\ in_context = "out"
    /\ sct_closes = 0

\* ImageStitcher.stitch_images about to be called with `images`
StitchInit(images) ==
    /\ st_pc = "start"
    /\ st_images = images
    /\ st_i = 0
    /\ st_result = None
    /\ merges = <<>>

\* the configuration _load_config falls back to (translator.py:52-56)
DefaultConfig ==
    [translation_engine |-> "google", gemini_api_key |-> FALSE, gemini_mode |-> "vision"]

\* a Translator about to be constructed under configuration cfg
\* (translator.py:23-31)
TranslatorInit(cfg) ==
    /\ t_pc = "new"
    /\ config = cfg
    /\ translator_obj = [engine_type |-> "none", gemini_model |-> FALSE,
                         translator |-> FALSE, gemini_mode |-> "unset"]
    /\ google_inits = 0
    /\ last_call = [op |-> "none"]

\* an OCREngine about to be asked to recognize an image in which the
\* recognition engine finds the boxes `data` (ocr_engine.py:64)
OcrInit(data) ==
    /\ ocr_pc = "start"
    /\ ocr_data = data
    /\ ocr_raised = FALSE
    /\ ocr_ret = <<>>

\* the objects of the specifications that are not about them
IdleObjects ==
    /\ ScreenCaptureInit(DefaultMaxPages)
    /\ StitchInit(<<>>)
    /\ TranslatorInit(DefaultConfig)
    /\ OcrInit(<<>>)

Init == PipelineInit(<<>>) /\ IdleObjects

----------------------------------------------------------------------------
(* UI process *)

\* ScreenTranslatorApp.start_capture: show a SnippingWidget
start_capture ==
    /\ ui = "running"
    /\ ~snipping
    /\ snipping' = TRUE
    /\ UNCHANGED <<callLog, pollVars, captureVars, stitchVars, translatorVars, ocrVars>>
    /\ UNCHANGED <<ui, command_queue, result_queue, workerVars, enqSeq, deqSeq, emitLog>>

\* on_region_selected with the guard written `<` instead of `<=`
on_region_selected_StrictGuard(x, y, width, height) ==
    IF width < 0 \/ height < 0
    THEN UNCHANGED <<command_queue, enqSeq>>
    ELSE \E dpr \in DPRs :
            PutCommand([type |-> "process_region",
                        region |-> [x |-> PhysPixels(x, dpr),
                                    y |-> PhysPixels(y, dpr),
                                    width |-> PhysPixels(width, dpr),
                                    height |-> PhysPixels(height, dpr)]])

\* ScreenTranslatorApp.on_region_selected(x, y, width, height)
on_region_selected(x, y, width, height) ==
    IF width <= 0 \/ height <= 0
    THEN UNCHANGED <<command_queue, enqSeq>>
    ELSE \E dpr \in DPRs :
            PutCommand([type |-> "process_region",
                        region |-> [x |-> PhysPixels(x, dpr),
                                    y |-> PhysPixels(y, dpr),
                                    width |-> PhysPixels(width, dpr),
                                    height |-> PhysPixels(height, dpr)]])

\* SnippingWidget.mouseReleaseEvent: emit region_selected for a selection of
\* at least MinSelection x MinSelection, then close the widget
mouseReleaseEvent ==
    /\ ui = "running"
    /\ snipping
    /\ Len(enqSeq) < MaxCmds
    /\ snipping' = FALSE
    /\ \E x \in Coords, y \in Coords, w \in SelDims, h \in SelDims :
          IF w >= MinSelection /\ h >= MinSelection
          THEN on_region_selected(x, y, w, h)
          ELSE UNCHANGED <<command_queue, enqSeq>>
    /\ UNCHANGED <<callLog, pollVars, captureVars, stitchVars, translatorVars, ocrVars>>
    /\ UNCHANGED <<ui, result_queue, workerVars, deqSeq, emitLog>>

\* the region_selected slot invoked directly (capture_full_screen and any
\* other caller of on_region_selected), with arbitrary arguments
OnRegionSelected ==
    /\ ui = "running"
    /\ Len(enqSeq) < MaxCmds
    /\ \E x \in Coords, y \in Coords, w \in Dims, h \in Dims :
          on_region_selected(x, y, w, h)
    /\ UNCHANGED <<callLog, pollVars, captureVars, stitchVars, translatorVars, ocrVars>>
    /\ UNCHANGED <<uiVars, result_queue, workerVars, deqSeq, emitLog>>

\* ScreenTranslatorApp.on_settings_saved: send reload_config to the pipeline
on_settings_saved ==
    /\ ui = "running"
    /\ Len(enqSeq) < MaxCmds
    /\ PutCommand([type |-> "reload_config"])
    /\ UNCHANGED <<callLog, pollVars, captureVars, stitchVars, translatorVars, ocrVars>>
    /\ UNCHANGED <<uiVars, result_queue, workerVars, deqSeq, emitLog>>

\* ScreenTranslatorApp.quit_app up to its join (main.py:324-348): send
\* shutdown and block the UI thread in pipeline.join(timeout=2); no UI
\* handler runs while it is blocked
quit_app ==
    /\ ui = "running"
    /\ PutCommand([type |-> "shutdown"])
    /\ ui' = "joining"
    /\ UNCHANGED <<callLog, pollVars, captureVars, stitchVars, translatorVars, ocrVars>>
    /\ UNCHANGED <<snipping, result_queue, workerVars, deqSeq, emitLog>>

\* quit_app whose join has no timeout: it returns when the worker has stopped
quit_app_join_NoTimeout ==
    /\ ui = "joining"
    /\ pc = "stopped"
    /\ ui' = "quit"
    /\ snipping' = FALSE
    /\ UNCHANGED <<callLog, pollVars, captureVars, stitchVars, translatorVars, ocrVars>>
    /\ UNCHANGED <<command_queue, result_queue, workerVars, enqSeq, deqSeq, emitLog>>

\* the rest of quit_app (main.py:348-351): join returns, because the worker
\* has stopped or because the timeout has elapsed, whatever the worker is
\* doing; then app.quit() ends the event loop, so no widget and no UI
\* handler is left
quit_app_join ==
    /\ ui = "joining"
    /\ ui' = "quit"
    /\ snipping' = FALSE
    /\ UNCHANGED <<callLog, pollVars, captureVars, stitchVars, translatorVars, ocrVars>>
    /\ UNCHANGED <<command_queue, result_queue, workerVars, enqSeq, deqSeq, emitLog>>

\* OverlayController.check_results that gives up on a message whose
\* get_nowait succeeded: the message leaves the queue and no handler sees it
check_results_SkipsOne ==
    /\ ui = "running"
    /\ result_queue # <<>>
    /\ handled' = handled \o Tail(result_queue)
    /\ result_queue' = <<>>
    /\ UNCHANGED <<callLog, captureVars, stitchVars, translatorVars, ocrVars>>
    /\ UNCHANGED <<uiVars, command_queue, workerVars, enqSeq, deqSeq, emitLog>>

\* OverlayController.check_results (overlay.py:465-472), run by the 50 ms
\* timer: get_nowait and handle_result for each queued message, from the head,
\* until the queue is empty or handle_result raises (`except: break`); the
\* message whose handler raised has left the queue
check_results ==
    /\ ui = "running"
    /\ result_queue # <<>>
    /\ \E n \in 1..Len(result_queue), raised \in BOOLEAN :
          /\ ~raised => n = Len(result_queue)
          /\ handled' = handled \o SubSeq(result_queue, 1, n)
          /\ result_queue' = SubSeq(result_queue, n + 1, Len(result_queue))
    /\ UNCHANGED <<callLog, captureVars, stitchVars, translatorVars, ocrVars>>
    /\ UNCHANGED <<uiVars, command_queue, workerVars, enqSeq, deqSeq, emitLog>>

----------------------------------------------------------------------------
(* Worker process: ProcessingPipeline.run *)

\* the Translator objects Translator.__init__ can leave behind
\* (translator.py:23-40, 58-156): Gemini selected and constructed, with or
\* without the Google backup; Google alone; or no engine at all
TranslatorConfigs ==
    {[engine_type |-> "gemini", gemini_model |-> TRUE, translator |-> TRUE,
      gemini_mode |-> "vision"],
     [engine_type |-> "gemini", gemini_model |-> TRUE, translator |-> FALSE,
      gemini_mode |-> "vision"],
     [engine_type |-> "google", gemini_model |-> FALSE, translator |-> TRUE,
      gemini_mode |-> "unset"],
     [engine_type |-> "google", gemini_model |-> FALSE, translator |-> FALSE,
      gemini_mode |-> "unset"]}

\* Translator.is_available looking at the secondary engine only
is_available_SecondaryOnly(tr) == tr.translator

\* Translator.is_available
is_available(tr) == tr.gemini_model \/ tr.translator

\* which step of initialize_engines raises ("none": all providers constructed)
InitFailures == {"none", "import", "capture", "ocr", "translator"}

\* initialize_engines whose except branch forgets `self.running = False`
initialize_engines_KeepsRunning ==
    /\ pc = "init"
    /\ \E fail \in InitFailures, tr \in TranslatorConfigs :
          /\ screen_capture' = IF fail \in {"import", "capture"} THEN "none" ELSE "open"
          /\ ocr_engine' = (fail \in {"none", "translator"})
          /\ translator' = IF fail # "none" THEN NoTranslator ELSE tr
          /\ IF fail = "none"
             THEN PutResult(0, [type |-> "init_complete",
                                  translator_available |-> is_available(tr)])
             ELSE PutResult(0, [type |-> "init_error", error |-> fail])
          /\ running' = TRUE
          /\ pc' = "loop"
    /\ UNCHANGED <<callLog, pollVars, captureVars, stitchVars, translatorVars, ocrVars>>
    /\ UNCHANGED <<uiVars, command_queue, procVars, enqSeq, deqSeq>>

\* initialize_engines putting init_complete before the translator is
\* constructed, so that a failure behind it adds init_error
initialize_engines_EmitsBoth ==
    /\ pc = "init"
    /\ \E fail \in InitFailures, tr \in TranslatorConfigs :
          /\ screen_capture' = IF fail \in {"import", "capture"} THEN "none" ELSE "open"
          /\ ocr_engine' = (fail \in {"none", "translator"})
          /\ translator' = IF fail # "none" THEN NoTranslator ELSE tr
          /\ IF fail = "none"
             THEN /\ PutResult(0, [type |-> "init_complete",
                                  translator_available |-> is_available(tr)])
                  /\ running' = TRUE
                  /\ pc' = "loop"
             ELSE IF fail = "translator"
             THEN /\ result_queue' = result_queue \o
                        <<[type |-> "init_complete", translator_available |-> FALSE],
                          [type |-> "init_error", error |-> fail]>>
                  /\ emitLog' = emitLog \o
                        <<[cmd |-> 0, msg |-> [type |-> "init_complete",
                                               translator_available |-> FALSE]],
                          [cmd |-> 0, msg |-> [type |-> "init_error", error |-> fail]]>>
                  /\ running' = FALSE
                  /\ pc' = "cleanup"
             ELSE /\ PutResult(0, [type |-> "init_error", error |-> fail])
                  /\ running' = FALSE
                  /\ pc' = "cleanup"
    /\ UNCHANGED <<callLog, pollVars, captureVars, stitchVars, translatorVars, ocrVars>>
    /\ UNCHANGED <<uiVars, command_queue, procVars, enqSeq, deqSeq>>

\* ProcessingPipeline.initialize_engines, then the first test of `while self.running`
initialize_engines ==
    /\ pc = "init"
    /\ \E fail \in InitFailures, tr \in TranslatorConfigs :
          /\ screen_capture' = IF fail \in {"import", "capture"} THEN "none" ELSE "open"
          /\ ocr_engine' = (fail \in {"none", "translator"})
          /\ translator' = IF fail # "none" THEN NoTranslator ELSE tr
          /\ IF fail = "none"
             THEN /\ PutResult(0, [type |-> "init_complete",
                                  translator_available |-> is_available(tr)])
                  /\ running' = TRUE
                  /\ pc' = "loop"
             ELSE /\ PutResult(0, [type |-> "init_error", error |-> fail])
                  /\ running' = FALSE
                  /\ pc' = "cleanup"
    /\ UNCHANGED <<callLog, pollVars, captureVars, stitchVars, translatorVars, ocrVars>>
    /\ UNCHANGED <<uiVars, command_queue, procVars, enqSeq, deqSeq>>

\* run_loop taking the newest command instead of the oldest
run_loop_Lifo ==
    /\ pc = "loop"
    /\ running
    /\ command_queue # <<>>
    /\ LET command == command_queue[Len(command_queue)] IN
          /\ command_queue' = SubSeq(command_queue, 1, Len(command_queue) - 1)
          /\ deqSeq' = Append(deqSeq, command)
          /\ IF command.cmd.type = "process_region"
             THEN /\ cur' = command
                  /\ pc' = "capture"
                  /\ running' = running
             ELSE IF command.cmd.type = "shutdown"
             THEN /\ running' = FALSE
                  /\ pc' = "cleanup"
                  /\ cur' = cur
             ELSE UNCHANGED <<pc, running, cur>>
    /\ UNCHANGED <<callLog, pollVars, captureVars, stitchVars, translatorVars, ocrVars>>
    /\ UNCHANGED <<uiVars, result_queue, image, ocr_results, providerVars, enqSeq, emitLog>>

\* run_loop leaving the loop on a command type it does not know
run_loop_UnknownStops ==
    /\ pc = "loop"
    /\ running
    /\ command_queue # <<>>
    /\ LET command == Head(command_queue) IN
          /\ command_queue' = Tail(command_queue)
          /\ deqSeq' = Append(deqSeq, command)
          /\ IF command.cmd.type = "process_region"
             THEN /\ cur' = command
                  /\ pc' = "capture"
                  /\ running' = running
             ELSE IF command.cmd.type = "shutdown"
             THEN /\ running' = FALSE
                  /\ pc' = "cleanup"
                  /\ cur' = cur
             ELSE /\ running' = FALSE
                  /\ pc' = "cleanup"
                  /\ cur' = cur
    /\ UNCHANGED <<callLog, pollVars, captureVars, stitchVars, translatorVars, ocrVars>>
    /\ UNCHANGED <<uiVars, result_queue, image, ocr_results, providerVars, enqSeq, emitLog>>

\* run_loop without the shutdown branch
run_loop_ShutdownIgnored ==
    /\ pc = "loop"
    /\ running
    /\ command_queue # <<>>
    /\ LET command == Head(command_queue) IN
          /\ command_queue' = Tail(command_queue)
          /\ deqSeq' = Append(deqSeq, command)
          /\ IF command.cmd.type = "process_region"
             THEN /\ cur' = command
                  /\ pc' = "capture"
                  /\ running' = running
             ELSE IF command.cmd.type = "shutdown"
             THEN UNCHANGED <<pc, running, cur>>
             ELSE UNCHANGED <<pc, running, cur>>
    /\ UNCHANGED <<callLog, pollVars, captureVars, stitchVars, translatorVars, ocrVars>>
    /\ UNCHANGED <<uiVars, result_queue, image, ocr_results, providerVars, enqSeq, emitLog>>

\* run_loop reading the command without removing it from the queue
run_loop_Peek ==
    /\ pc = "loop"
    /\ running
    /\ command_queue # <<>>
    /\ LET command == Head(command_queue) IN
          /\ command_queue' = command_queue
          /\ deqSeq' = Append(deqSeq, command)
          /\ IF command.cmd.type = "process_region"
             THEN /\ cur' = command
                  /\ pc' = "capture"
                  /\ running' = running
             ELSE IF command.cmd.type = "shutdown"
             THEN /\ running' = FALSE
                  /\ pc' = "cleanup"
                  /\ cur' = cur
             ELSE UNCHANGED <<pc, running, cur>>
    /\ UNCHANGED <<callLog, pollVars, captureVars, stitchVars, translatorVars, ocrVars>>
    /\ UNCHANGED <<uiVars, result_queue, image, ocr_results, providerVars, enqSeq, emitLog>>

\* run_loop constructing a new Translator when it gets reload_config
run_loop_Reloads ==
    /\ pc = "loop"
    /\ running
    /\ command_queue # <<>>
    /\ LET command == Head(command_queue) IN
          /\ command_queue' = Tail(command_queue)
          /\ deqSeq' = Append(deqSeq, command)
          /\ IF command.cmd.type = "process_region"
             THEN /\ cur' = command
                  /\ pc' = "capture"
                  /\ running' = running
                  /\ translator' = translator
             ELSE IF command.cmd.type = "shutdown"
             THEN /\ running' = FALSE
                  /\ pc' = "cleanup"
                  /\ cur' = cur
                  /\ translator' = translator
             ELSE /\ UNCHANGED <<pc, running, cur>>
                  /\ \E tr \in TranslatorConfigs : translator' = tr
    /\ UNCHANGED <<callLog, pollVars, captureVars, stitchVars, translatorVars, ocrVars>>
    /\ UNCHANGED <<uiVars, result_queue, image, ocr_results, screen_capture, ocr_engine,
                   enqSeq, emitLog>>

\* one iteration of the command loop with a command waiting
\* (pipeline.py:244-254); an unhandled command type falls through.  Every
\* command the UI puts carries the keys run reads, so the `except` of the
\* loop (pipeline.py:260-262) is not entered.
run_loop ==
    /\ pc = "loop"
    /\ running
    /\ command_queue # <<>>
    /\ LET command == Head(command_queue) IN
          /\ command_queue' = Tail(command_queue)
          /\ deqSeq' = Append(deqSeq, command)
          /\ IF command.cmd.type = "process_region"
             THEN /\ cur' = command
                  /\ pc' = "capture"
                  /\ running' = running
             ELSE IF command.cmd.type = "shutdown"
             THEN /\ running' = FALSE
                  /\ pc' = "cleanup"
                  /\ cur' = cur
             ELSE UNCHANGED <<pc, running, cur>>
    /\ UNCHANGED <<callLog, pollVars, captureVars, stitchVars, translatorVars, ocrVars>>
    /\ UNCHANGED <<uiVars, result_queue, image, ocr_results, providerVars, enqSeq, emitLog>>

\* process_region returns to run, which tests `while self.running` again
Return ==
    /\ pc' = IF running' THEN "loop" ELSE "cleanup"
    /\ cur' = NoCmd
    /\ image' = NoImage
    /\ ocr_results' = <<>>

\* the except branch of process_region stopping the worker
Raise_StopsWorker(e) ==
    /\ running' = FALSE
    /\ PutResult(cur.id, ErrorMsg(e))
    /\ Return

\* the `except Exception as e` of process_region (pipeline.py:223-228)
Raise(e) ==
    /\ running' = running
    /\ PutResult(cur.id, ErrorMsg(e))
    /\ Return

\* record a provider call of process_region (history only)
LogCall(entry) == callLog' = Append(callLog, entry)

\* the capture stage without the `return` after reporting the failed capture
process_region_capture_NoReturn ==
    /\ pc = "capture"
    /\ \E img \in {NoImage, "image"} :
          /\ LogCall([cmd |-> cur.id, op |-> "capture", arg |-> cur.cmd.region, ret |-> img])
          /\ IF img = NoImage
             THEN /\ PutResult(cur.id, ErrorMsg("Failed to capture screen region"))
                  /\ image' = img
                  /\ pc' = "ocr"
                  /\ UNCHANGED <<running, cur, ocr_results>>
             ELSE /\ image' = img
                  /\ pc' = "ocr"
                  /\ UNCHANGED <<running, cur, ocr_results, result_queue, emitLog>>
    /\ UNCHANGED <<uiVars, command_queue, providerVars, enqSeq, deqSeq, pollVars, captureVars,
                   stitchVars, translatorVars, ocrVars>>

\* process_region, capture stage (pipeline.py:96-110); capture_region
\* swallows its own exceptions and returns None
process_region_capture ==
    /\ pc = "capture"
    /\ \E img \in {NoImage, "image"} :
          /\ LogCall([cmd |-> cur.id, op |-> "capture", arg |-> cur.cmd.region, ret |-> img])
          /\ IF img = NoImage
             THEN /\ running' = running
                  /\ PutResult(cur.id, ErrorMsg("Failed to capture screen region"))
                  /\ Return
             ELSE /\ image' = img
                  /\ pc' = "ocr"
                  /\ UNCHANGED <<running, cur, ocr_results, result_queue, emitLog>>
    /\ UNCHANGED <<uiVars, command_queue, providerVars, enqSeq, deqSeq, pollVars, captureVars,
                   stitchVars, translatorVars, ocrVars>>

\* the recognition stage without the `if not ocr_results` branch
process_region_ocr_NoEmptyBranch ==
    /\ pc = "ocr"
    /\ \E res \in OcrOutcomes, exc \in {"none", "print"} :
          /\ LogCall([cmd |-> cur.id, op |-> "ocr", arg |-> image, ret |-> res])
          /\ IF exc = "print"
             THEN Raise(exc)
             ELSE /\ ocr_results' = res
                  /\ pc' = "translate"
                  /\ UNCHANGED <<running, cur, image, result_queue, emitLog>>
    /\ UNCHANGED <<uiVars, command_queue, providerVars, enqSeq, deqSeq, pollVars, captureVars,
                   stitchVars, translatorVars, ocrVars>>

\* process_region, recognition stage with its logging (pipeline.py:112-165);
\* printing the log lines or cv2.imwrite may raise
process_region_ocr ==
    /\ pc = "ocr"
    /\ \E res \in OcrOutcomes, exc \in {"none", "print", "imwrite"} :
          /\ LogCall([cmd |-> cur.id, op |-> "ocr", arg |-> image, ret |-> res])
          /\ IF exc = "print" \/ (exc = "imwrite" /\ res = <<>>)
             THEN Raise(exc)
             ELSE IF res = <<>>
             THEN /\ running' = running
                  /\ PutResult(cur.id, [type |-> "result", region |-> cur.cmd.region,
                                        texts |-> <<>>,
                                        timing |-> [translation |-> 0]])
                  /\ Return
             ELSE /\ ocr_results' = res
                  /\ pc' = "translate"
                  /\ UNCHANGED <<running, cur, image, result_queue, emitLog>>
    /\ UNCHANGED <<uiVars, command_queue, providerVars, enqSeq, deqSeq, pollVars, captureVars,
                   stitchVars, translatorVars, ocrVars>>

\* Translator._translate_with_google without its try/except
translate_with_google_Unguarded(tr, text, goo) ==
    IF tr.translator /\ goo = "text"
    THEN [ret |-> "vi:" \o text, secondary |-> "text", raised |-> FALSE]
    ELSE [ret |-> text, secondary |-> IF tr.translator THEN goo ELSE "none", raised |-> TRUE]

\* Translator._translate_with_google (translator.py:256-262): the engine's
\* answer; the text itself when the engine raises or was never constructed
\* (self.translator is None: the AttributeError is caught too)
translate_with_google(tr, text, goo) ==
    IF tr.translator /\ goo = "text"
    THEN [ret |-> "vi:" \o text, secondary |-> "text", raised |-> FALSE]
    ELSE [ret |-> text, secondary |-> IF tr.translator THEN goo ELSE "none", raised |-> FALSE]

\* what one translate call did: the value returned, what each engine called
\* answered ("unused" when it was not called), the base prompt each Gemini
\* request was built from, and the engines in the order they were called
Outcome(ret, vision, primary, secondary, raised, vision_prompt, primary_prompt, order) ==
    [ret |-> ret, vision |-> vision, primary |-> primary, secondary |-> secondary,
     raised |-> raised, vision_prompt |-> vision_prompt,
     primary_prompt |-> primary_prompt, order |-> order]

\* `prompt_override if prompt_override else self.custom_prompt`
\* (translator.py:212, 236)
base_prompt(prompt_override) ==
    IF prompt_override \in {NoPrompt, ""} THEN "custom_prompt" ELSE prompt_override

\* Translator._translate_with_gemini that gives the text back when the request
\* fails, without asking the secondary engine
translate_with_gemini_NoFallback(tr, text, prompt_override, gem, goo) ==
    IF gem = "text"
    THEN Outcome("gm:" \o text, "unused", "text", "unused", FALSE,
                 "unused", base_prompt(prompt_override), <<"primary">>)
    ELSE IF gem = "blank"
    THEN Outcome("", "unused", "blank", "unused", FALSE,
                 "unused", base_prompt(prompt_override), <<"primary">>)
    ELSE Outcome(text, "unused", gem, "unused", FALSE,
                 "unused", base_prompt(prompt_override), <<"primary">>)

\* Translator._translate_with_gemini (translator.py:232-254): the stripped
\* response text, empty when the response was blank; the secondary engine when
\* the response is blocked or the request raises
translate_with_gemini(tr, text, prompt_override, gem, goo) ==
    IF gem = "text"
    THEN Outcome("gm:" \o text, "unused", "text", "unused", FALSE,
                 "unused", base_prompt(prompt_override), <<"primary">>)
    ELSE IF gem = "blank"
    THEN Outcome("", "unused", "blank", "unused", FALSE,
                 "unused", base_prompt(prompt_override), <<"primary">>)
    ELSE LET g == translate_with_google(tr, text, goo)
         IN  Outcome(g.ret, "unused", gem, g.secondary, g.raised,
                     "unused", base_prompt(prompt_override), <<"primary", "secondary">>)

\* Translator._translate_with_gemini_vision (translator.py:185-230): the
\* stripped response to the image, empty when the response was blank; the
\* text request with the same prompt_override when the response is blocked or
\* anything raises
translate_with_gemini_vision(tr, text, img, prompt_override, vis, gem, goo) ==
    IF vis = "text"
    THEN Outcome("vs:" \o img, "text", "unused", "unused", FALSE,
                 base_prompt(prompt_override), "unused", <<"vision">>)
    ELSE IF vis = "blank"
    THEN Outcome("", "blank", "unused", "unused", FALSE,
                 base_prompt(prompt_override), "unused", <<"vision">>)
    ELSE LET p == translate_with_gemini(tr, text, prompt_override, gem, goo)
         IN  Outcome(p.ret, vis, p.primary, p.secondary, p.raised,
                     base_prompt(prompt_override), p.primary_prompt,
                     <<"vision">> \o p.order)

\* Translator.translate testing `not text` only, so that whitespace-only text
\* goes to the engines
translate_EmptyOnly(tr, text, img, prompt, vis, gem, goo) ==
    IF text = ""
    THEN Outcome(text, "unused", "unused", "unused", FALSE, "unused", "unused", <<>>)
    ELSE IF tr.engine_type = "gemini" /\ tr.gemini_model
    THEN IF img # NoImage /\ tr.gemini_mode = "vision"
         THEN translate_with_gemini_vision(tr, text, img, prompt, vis, gem, goo)
         ELSE translate_with_gemini(tr, text, prompt, gem, goo)
    ELSE IF tr.translator
    THEN LET g == translate_with_google(tr, text, goo)
         IN  Outcome(g.ret, "unused", "unused", g.secondary, g.raised,
                     "unused", "unused", <<"secondary">>)
    ELSE Outcome(text, "unused", "unused", "unused", FALSE, "unused", "unused", <<>>)

\* Translator.translate (translator.py:158-183); vis, gem and goo are what the
\* vision request, the text request and the secondary engine would answer
translate(tr, text, img, prompt, vis, gem, goo) ==
    IF text \in BlankTexts
    THEN Outcome(text, "unused", "unused", "unused", FALSE, "unused", "unused", <<>>)
    ELSE IF tr.engine_type = "gemini" /\ tr.gemini_model
    THEN IF img # NoImage /\ tr.gemini_mode = "vision"
         THEN translate_with_gemini_vision(tr, text, img, prompt, vis, gem, goo)
         ELSE translate_with_gemini(tr, text, prompt, gem, goo)
    ELSE IF tr.translator
    THEN LET g == translate_with_google(tr, text, goo)
         IN  Outcome(g.ret, "unused", "unused", g.secondary, g.raised,
                     "unused", "unused", <<"secondary">>)
    ELSE Outcome(text, "unused", "unused", "unused", FALSE, "unused", "unused", <<>>)

\* Translator.translate_batch that leaves blank inputs out of its result
translate_batch_DropsBlank(tr, texts, gems, goos) ==
    LET kept == SelectSeq([i \in 1..Len(texts) |-> i], LAMBDA i : texts[i] \notin BlankTexts)
    IN  [k \in 1..Len(kept) |->
            translate(tr, texts[kept[k]], NoImage, NoPrompt, "unused",
                      gems[kept[k]], goos[kept[k]]).ret]

\* Translator.translate_batch (translator.py:264-285): translate(text) for
\* each text in order; gems[i], goos[i] are the engines' answers in call i
translate_batch(tr, texts, gems, goos) ==
    IF Len(texts) = 0
    THEN <<>>
    ELSE [i \in 1..Len(texts) |->
            translate(tr, texts[i], NoImage, NoPrompt, "unused", gems[i], goos[i]).ret]

\* the translation stage translating span by span and joining the answers
process_region_translate_PerSpan ==
    /\ pc = "translate"
    /\ \E gem \in GeminiOutcomes, goo \in GoogleOutcomes,
          translate_time \in Durations, exc \in {"none", "print"} :
          LET combined_text == Join(ocr_results)
              call == translate(translator, combined_text, NoImage, NoPrompt, "unused", gem, goo)
              word(i) == translate(translator, ocr_results[i], NoImage, NoPrompt, "unused", gem, goo)
              translated_full == IF is_available(translator) THEN Join([i \in 1..Len(ocr_results) |-> word(i).ret])
                                 ELSE combined_text
              translations == [i \in 1..Len(ocr_results) |->
                                  [original |-> ocr_results[i],
                                   translated |-> ocr_results[i]]]
          IN  /\ IF is_available(translator)
                 THEN callLog' = callLog \o
                         [i \in 1..Len(ocr_results) |->
                             [cmd |-> cur.id, op |-> "translate", arg |-> ocr_results[i],
                              ret |-> word(i).ret, primary |-> word(i).primary,
                              secondary |-> word(i).secondary]]
                 ELSE UNCHANGED callLog
              /\ IF is_available(translator) /\ call.raised
                 THEN Raise("engine")
                 ELSE IF is_available(translator) /\ exc = "print"
                 THEN Raise(exc)
                 ELSE /\ running' = running
                      /\ PutResult(cur.id, [type |-> "result", region |-> cur.cmd.region,
                                            texts |-> translations,
                                            full_translation |-> translated_full,
                                            timing |-> [translation |-> translate_time]])
                      /\ Return
    /\ UNCHANGED <<uiVars, command_queue, providerVars, enqSeq, deqSeq, pollVars, captureVars,
                   stitchVars, translatorVars, ocrVars>>

\* the translation stage putting the translation into every span entry
process_region_translate_TranslatedSpans ==
    /\ pc = "translate"
    /\ \E gem \in GeminiOutcomes, goo \in GoogleOutcomes,
          translate_time \in Durations, exc \in {"none", "print"} :
          LET combined_text == Join(ocr_results)
              call == translate(translator, combined_text, NoImage, NoPrompt, "unused", gem, goo)
              word(i) == translate(translator, ocr_results[i], NoImage, NoPrompt, "unused", gem, goo)
              translated_full == IF is_available(translator) THEN call.ret
                                 ELSE combined_text
              translations == [i \in 1..Len(ocr_results) |->
                                  [original |-> ocr_results[i],
                                   translated |-> translated_full]]
          IN  /\ IF is_available(translator)
                 THEN LogCall([cmd |-> cur.id, op |-> "translate", arg |-> combined_text,
                               ret |-> call.ret, primary |-> call.primary,
                               secondary |-> call.secondary])
                 ELSE UNCHANGED callLog
              /\ IF is_available(translator) /\ call.raised
                 THEN Raise("engine")
                 ELSE IF is_available(translator) /\ exc = "print"
                 THEN Raise(exc)
                 ELSE /\ running' = running
                      /\ PutResult(cur.id, [type |-> "result", region |-> cur.cmd.region,
                                            texts |-> translations,
                                            full_translation |-> translated_full,
                                            timing |-> [translation |-> translate_time]])
                      /\ Return
    /\ UNCHANGED <<uiVars, command_queue, providerVars, enqSeq, deqSeq, pollVars, captureVars,
                   stitchVars, translatorVars, ocrVars>>

\* process_region, translation stage (pipeline.py:167-221); printing the
\* translation may raise
process_region_translate ==
    /\ pc = "translate"
    /\ \E gem \in GeminiOutcomes, goo \in GoogleOutcomes,
          translate_time \in Durations, exc \in {"none", "print"} :
          LET combined_text == Join(ocr_results)
              call == translate(translator, combined_text, NoImage, NoPrompt, "unused", gem, goo)
              translated_full == IF is_available(translator) THEN call.ret
                                 ELSE combined_text
              translations == [i \in 1..Len(ocr_results) |->
                                  [original |-> ocr_results[i],
                                   translated |-> ocr_results[i]]]
          IN  /\ IF is_available(translator)
                 THEN LogCall([cmd |-> cur.id, op |-> "translate", arg |-> combined_text,
                               ret |-> call.ret, primary |-> call.primary,
                               secondary |-> call.secondary])
                 ELSE UNCHANGED callLog
              /\ IF is_available(translator) /\ call.raised
                 THEN Raise("engine")
                 ELSE IF is_available(translator) /\ exc = "print"
                 THEN Raise(exc)
                 ELSE /\ running' = running
                      /\ PutResult(cur.id, [type |-> "result", region |-> cur.cmd.region,
                                            texts |-> translations,
                                            full_translation |-> translated_full,
                                            timing |-> [translation |-> translate_time]])
                      /\ Return
    /\ UNCHANGED <<uiVars, command_queue, providerVars, enqSeq, deqSeq, pollVars, captureVars,
                   stitchVars, translatorVars, ocrVars>>

\* cleanup that does not close the capture provider
cleanup_NoClose ==
    /\ pc = "cleanup"
    /\ screen_capture' = screen_capture
    /\ pc' = "stopped"
    /\ UNCHANGED <<callLog, pollVars, captureVars, stitchVars, translatorVars, ocrVars>>
    /\ UNCHANGED <<uiVars, command_queue, result_queue, running, procVars,
                   ocr_engine, translator, enqSeq, deqSeq, emitLog>>

\* cleanup that closes the capture provider only behind a shutdown command
cleanup_OnlyAfterShutdown ==
    /\ pc = "cleanup"
    /\ screen_capture' = IF screen_capture = "open" /\ deqSeq # <<>>
                          THEN "closed" ELSE screen_capture
    /\ pc' = "stopped"
    /\ UNCHANGED <<callLog, pollVars, captureVars, stitchVars, translatorVars, ocrVars>>
    /\ UNCHANGED <<uiVars, command_queue, result_queue, running, procVars,
                   ocr_engine, translator, enqSeq, deqSeq, emitLog>>

\* cleanup after the loop (pipeline.py:264-268)
cleanup ==
    /\ pc = "cleanup"
    /\ screen_capture' = IF screen_capture = "open" THEN "closed" ELSE screen_capture
    /\ pc' = "stopped"
    /\ UNCHANGED <<callLog, pollVars, captureVars, stitchVars, translatorVars, ocrVars>>
    /\ UNCHANGED <<uiVars, command_queue, result_queue, running, procVars,
                   ocr_engine, translator, enqSeq, deqSeq, emitLog>>

----------------------------------------------------------------------------
UINext ==
    \/ start_capture
    \/ mouseReleaseEvent
    \/ OnRegionSelected
    \/ on_settings_saved
    \/ quit_app
    \/ quit_app_join
    \/ check_results

WorkerNext ==
    \/ initialize_engines
    \/ run_loop
    \/ process_region_capture
    \/ process_region_ocr
    \/ process_region_translate
    \/ cleanup

Next == UINext \/ WorkerNext

Spec == Init /\ [][Next]_vars

\* the worker process keeps being scheduled and its stage calls return
FairSpec == Spec /\ WF_vars(WorkerNext)

----------------------------------------------------------------------------
(* Definitions used by the properties *)

Last(seq) == seq[Len(seq)]

\* the exceptions process_region can see (str(e))
ExcMsgs == {"print", "imwrite"}

\* the messages on the result log that answer command id
EmitsFor(id) == {i \in DOMAIN emitLog : emitLog[i].cmd = id}

Dequeued(id) == \E k \in DOMAIN deqSeq : deqSeq[k].id = id

\* command id was dequeued and the worker is no longer working on it
Done(id) == Dequeued(id) /\ cur.id # id

InitFailed == emitLog # <<>> /\ emitLog[1].msg.type = "init_error"
InitComplete == emitLog # <<>> /\ emitLog[1].msg.type = "init_complete"

ShutdownDequeued == deqSeq # <<>> /\ Last(deqSeq).cmd.type = "shutdown"

Processing == pc \in {"capture", "ocr", "translate"}

\* an exception was turned into an error result for command id
ExcErrorFor(id) ==
    \E i \in EmitsFor(id) : emitLog[i].msg.type = "error" /\ emitLog[i].msg.error \in ExcMsgs

CmdIds == 1..(MaxCmds + 1)

----------------------------------------------------------------------------
(* C1: every process_region command with width > 0 and height > 0 that the *)
(* worker dequeued has no message on the result queue while it is being    *)
(* processed and exactly one, of type result or error, once process_region *)
(* has returned.                                                           *)
C1_ExactlyOneResult ==
    \A k \in DOMAIN deqSeq :
        LET c == deqSeq[k] IN
        (c.cmd.type = "process_region" /\ c.cmd.region.width > 0 /\ c.cmd.region.height > 0)
        => /\ Cardinality(EmitsFor(c.id)) = IF Done(c.id) THEN 1 ELSE 0
           /\ \A i \in EmitsFor(c.id) : emitLog[i].msg.type \in {"result", "error"}

\* one command answered by a result with texts, another by an error
C1_Witness ==
    /\ \E i \in DOMAIN emitLog :
          /\ emitLog[i].cmd > 0
          /\ emitLog[i].msg.type = "result"
          /\ emitLog[i].msg.texts # <<>>
    /\ \E i \in DOMAIN emitLog : emitLog[i].cmd > 0 /\ emitLog[i].msg.type = "error"
    /\ pc = "loop"

(* C2: every dequeued command other than shutdown has exactly one message  *)
(* on the result queue once the worker is done with it.                    *)
C2_OneResultPerCommand ==
    \A k \in DOMAIN deqSeq :
        LET c == deqSeq[k] IN
        (c.cmd.type # "shutdown" /\ Done(c.id)) => Cardinality(EmitsFor(c.id)) = 1

(* C3: the k-th command enqueued is the k-th command dequeued; when a      *)
(* command is dequeued every process_region dequeued before it has emitted *)
(* its result; results are emitted in the order of their commands.         *)
C3_FifoOneAtATime ==
    /\ Len(deqSeq) <= Len(enqSeq)
    /\ \A k \in DOMAIN deqSeq : deqSeq[k] = enqSeq[k]
    /\ \A k \in 1..(Len(deqSeq) - 1) :
          deqSeq[k].cmd.type = "process_region" => Cardinality(EmitsFor(deqSeq[k].id)) = 1
    /\ \A i, j \in DOMAIN emitLog : i < j => emitLog[i].cmd <= emitLog[j].cmd

\* two region commands were served one after the other and both answered
C3_Witness ==
    /\ Len(deqSeq) = 2
    /\ deqSeq[1].cmd.type = "process_region"
    /\ deqSeq[2].cmd.type = "process_region"
    /\ Len(emitLog) = 3
    /\ emitLog[2].cmd = 1
    /\ emitLog[3].cmd = 2

(* C4: a step in which an exception of process_region becomes an error     *)
(* result puts exactly that one message, leaves running true and returns   *)
(* to the command loop; every command enqueued after such an error is      *)
(* eventually dequeued and finished.                                       *)
C4_ExceptionAbsorbed ==
    /\ [][\A e \in ExcMsgs :
            (Processing /\ emitLog' # emitLog /\ Last(emitLog').msg = ErrorMsg(e))
            => /\ emitLog' = Append(emitLog, [cmd |-> cur.id, msg |-> ErrorMsg(e)])
               /\ running'
               /\ pc' = "loop"]_vars
    /\ \A i \in CmdIds :
          ((\E j \in 1..(i - 1) : ExcErrorFor(j)) /\ Len(enqSeq) >= i) ~> Done(i)

\* a command was answered by an exception error and a later one was processed
C4_Witness ==
    /\ ExcErrorFor(1)
    /\ Done(2)
    /\ deqSeq[2].cmd.type = "process_region"
    /\ running

(* C5: when construction of a provider fails the worker emits init_error   *)
(* and nothing else, never dequeues a command, is never in the command     *)
(* loop, and reaches stopped.                                              *)
C5_InitFailureStops ==
    /\ []((pc # "init" /\ (screen_capture = "none" \/ ~ocr_engine \/ translator = NoTranslator))
            => /\ InitFailed
               /\ Len(emitLog) = 1
               /\ deqSeq = <<>>
               /\ ~running
               /\ pc \in {"cleanup", "stopped"})
    /\ (InitFailed ~> pc = "stopped")

\* initialization failed and the worker stopped with a command still queued
C5_Witness ==
    /\ InitFailed
    /\ pc = "stopped"
    /\ command_queue # <<>>

(* C6: the worker has left the command loop only after init_error or after *)
(* dequeuing shutdown.                                                     *)
C6_StoppedOnlyByInitErrorOrShutdown ==
    (pc \in {"cleanup", "stopped"} \/ ~running) => (InitFailed \/ ShutdownDequeued)

\* stopped by shutdown after an error result and an unknown command
C6_Witness ==
    /\ pc = "stopped"
    /\ ShutdownDequeued
    /\ \E i \in DOMAIN emitLog : emitLog[i].msg.type = "error"
    /\ \E k \in DOMAIN deqSeq : deqSeq[k].cmd.type = "reload_config"

(* C7: when shutdown is waiting in the command queue while the worker is   *)
(* processing a command, the worker eventually reaches stopped.            *)
C7_ShutdownWhileProcessing ==
    ((\E k \in DOMAIN command_queue : command_queue[k].cmd.type = "shutdown") /\ Processing)
        ~> (pc = "stopped")

\* shutdown is queued behind the command being processed
C7_Witness ==
    /\ Processing
    /\ command_queue # <<>>
    /\ Head(command_queue).cmd.type = "shutdown"

C9_EveryCommandConsumed ==
    /\ [](\A j, k \in DOMAIN deqSeq : deqSeq[j].id = deqSeq[k].id => j = k)
    /\ \A i \in CmdIds : (Len(enqSeq) >= i) ~> Dequeued(i)

(* C9 amended: no command is dequeued twice or while still queued, and     *)
(* once initialization has completed every command put on the command      *)
(* queue is eventually dequeued.                                           *)
C9_ConsumedOnceAfterInit ==
    /\ [](/\ \A j, k \in DOMAIN deqSeq : deqSeq[j].id = deqSeq[k].id => j = k
          /\ \A k \in DOMAIN command_queue : ~Dequeued(command_queue[k].id))
    /\ \A i \in CmdIds : (InitComplete /\ Len(enqSeq) >= i) ~> Dequeued(i)

\* commands enqueued before initialization completed have all been consumed
C9_Witness ==
    /\ InitComplete
    /\ Len(enqSeq) = MaxCmds + 1
    /\ Len(deqSeq) = MaxCmds + 1
    /\ command_queue = <<>>

(* C10: every process_region command ever put on the command queue carries *)
(* a region with width > 0 and height > 0.                                 *)
C10_EnqueuedRegionsPositive ==
    \A k \in DOMAIN enqSeq :
        enqSeq[k].cmd.type = "process_region"
        => enqSeq[k].cmd.region.width > 0 /\ enqSeq[k].cmd.region.height > 0

\* a region went through the DPI conversion and was enqueued
C10_Witness ==
    \E k \in DOMAIN enqSeq :
        /\ enqSeq[k].cmd.type = "process_region"
        /\ enqSeq[k].cmd.region.width = 15
        /\ enqSeq[k].cmd.region.height = 15

----------------------------------------------------------------------------
(* Definitions used by the properties about the provider calls *)

\* the calls of provider operation op that process_region made for command id
CallsFor(id, op) == {i \in DOMAIN callLog : callLog[i].cmd = id /\ callLog[i].op = op}

\* the spans the recognition provider returned for command id
SpansOf(id) == callLog[CHOOSE i \in CallsFor(id, "ocr") : TRUE].ret

\* a translate call in which an engine raised (or the secondary engine that
\* the primary fell back to was never constructed)
EngineFailed(c) == c.primary = "raise" \/ c.secondary \in {"raise", "none"}

CaptureFailedFor(id) == \E i \in CallsFor(id, "capture") : callLog[i].ret = NoImage

(* C11: when recognition returned no spans for a command, the translation  *)
(* provider is not called for it, and, unless a statement of the handler   *)
(* itself raised (C4), the one message answering it is a result with empty *)
(* texts, timing.translation 0 and no full_translation.                    *)
C11_EmptyRecognitionResult ==
    \A i \in DOMAIN callLog :
        LET c == callLog[i] IN
        (c.op = "ocr" /\ c.ret = <<>> /\ Done(c.cmd))
        => /\ CallsFor(c.cmd, "translate") = {}
           /\ EmitsFor(c.cmd) # {}
           /\ ~ExcErrorFor(c.cmd)
              => \A j \in EmitsFor(c.cmd) :
                    LET m == emitLog[j].msg IN
                    /\ m.type = "result"
                    /\ m.texts = <<>>
                    /\ m.timing.translation = 0
                    /\ "full_translation" \notin DOMAIN m

\* a command with empty recognition was answered by a result while the
\* translator is available
C11_Witness ==
    /\ is_available(translator)
    /\ \E i \in DOMAIN callLog :
          /\ callLog[i].op = "ocr"
          /\ callLog[i].ret = <<>>
          /\ Done(callLog[i].cmd)
          /\ \E j \in EmitsFor(callLog[i].cmd) : emitLog[j].msg.type = "result"

(* C12: a finished command with at least one recognized span is answered   *)
(* by a result unless a statement of the handler itself raised (C4).  With *)
(* an available translator, translate was called at most once, exactly     *)
(* once when a result was emitted, with the span texts joined by single    *)
(* spaces in recognition order, and the result's full_translation is what  *)
(* that call returned; with no translator available, translate was not     *)
(* called and full_translation is the joined text.                         *)
C12_TranslateJoinedOnce ==
    \A i \in DOMAIN callLog :
        LET c == callLog[i]
            calls == CallsFor(c.cmd, "translate")
            results == {j \in EmitsFor(c.cmd) : emitLog[j].msg.type = "result"}
        IN  (c.op = "ocr" /\ c.ret # <<>> /\ Done(c.cmd))
            => /\ (results # {} \/ ExcErrorFor(c.cmd))
               /\ IF is_available(translator)
                  THEN /\ Cardinality(calls) <= 1
                       /\ (results # {} => Cardinality(calls) = 1)
                       /\ \A k \in calls :
                             /\ callLog[k].arg = Join(c.ret)
                             /\ \A j \in results :
                                   emitLog[j].msg.full_translation = callLog[k].ret
                  ELSE /\ calls = {}
                       /\ \A j \in results :
                             emitLog[j].msg.full_translation = Join(c.ret)

\* a two-span command translated by an engine into something else than the joined text
C12_Witness ==
    \E j \in DOMAIN emitLog :
        /\ emitLog[j].msg.type = "result"
        /\ emitLog[j].msg.texts # <<>>
        /\ CallsFor(emitLog[j].cmd, "translate") # {}
        /\ emitLog[j].msg.full_translation = "vi:a b"

(* C13: in every result message the texts list has the length and order of *)
(* the recognized spans and each entry's translated equals its original,   *)
(* the span text as recognized.                                            *)
C13_SpansKeptUntranslated ==
    \A j \in DOMAIN emitLog :
        LET m == emitLog[j].msg IN
        m.type = "result"
        => /\ CallsFor(emitLog[j].cmd, "ocr") # {}
           /\ Len(m.texts) = Len(SpansOf(emitLog[j].cmd))
           /\ \A k \in DOMAIN m.texts :
                 /\ m.texts[k].original = SpansOf(emitLog[j].cmd)[k]
                 /\ m.texts[k].translated = m.texts[k].original

\* a translated two-span result whose entries still carry the recognized text
C13_Witness ==
    \E j \in DOMAIN emitLog :
        /\ emitLog[j].msg.type = "result"
        /\ Len(emitLog[j].msg.texts) = 2
        /\ emitLog[j].msg.full_translation = "gm:a b"
        /\ emitLog[j].msg.texts[2].translated = "b"

(* C14: a command whose capture returned None is answered by exactly one   *)
(* error message, no recognition and no translation call is made for it,   *)
(* the worker keeps running, and every command enqueued behind it is       *)
(* eventually dequeued and finished.                                       *)
C14_CaptureFailureAbortsOnlyCommand ==
    /\ [](\A i \in DOMAIN callLog :
            LET c == callLog[i] IN
            (c.op = "capture" /\ c.ret = NoImage)
            => /\ Done(c.cmd)
               /\ Cardinality(EmitsFor(c.cmd)) = 1
               /\ \A j \in EmitsFor(c.cmd) :
                     emitLog[j].msg = ErrorMsg("Failed to capture screen region")
               /\ CallsFor(c.cmd, "ocr") = {}
               /\ CallsFor(c.cmd, "translate") = {}
               /\ (running \/ ShutdownDequeued))
    /\ \A i \in CmdIds :
          ((\E j \in 1..(i - 1) : CaptureFailedFor(j)) /\ Len(enqSeq) >= i) ~> Done(i)

\* the command after a failed capture was recognized and answered by a result
C14_Witness ==
    /\ CaptureFailedFor(1)
    /\ Done(2)
    /\ CallsFor(2, "ocr") # {}
    /\ \E j \in EmitsFor(2) : emitLog[j].msg.type = "result"

(* C15: when an engine failed during the translate call of a finished      *)
(* command, no error message reports it: unless a statement of the handler *)
(* itself raised (C4), the command is answered by a result whose           *)
(* full_translation is the secondary engine's translation or the joined    *)
(* text unchanged.                                                         *)
C15_EngineFailureGivesResult ==
    \A i \in DOMAIN callLog :
        LET c == callLog[i] IN
        (c.op = "translate" /\ EngineFailed(c) /\ Done(c.cmd))
        => /\ EmitsFor(c.cmd) # {}
           /\ \A j \in EmitsFor(c.cmd) :
                 LET m == emitLog[j].msg IN
                 \/ m.type = "error" /\ m.error \in ExcMsgs
                 \/ /\ m.type = "result"
                    /\ m.full_translation = IF c.secondary = "text" THEN "vi:" \o c.arg
                                            ELSE c.arg

\* both engines raised and the command was answered by the untranslated text
C15_Witness ==
    \E i \in DOMAIN callLog :
        /\ callLog[i].op = "translate"
        /\ callLog[i].primary = "raise"
        /\ callLog[i].secondary = "raise"
        /\ \E j \in EmitsFor(callLog[i].cmd) :
              /\ emitLog[j].msg.type = "result"
              /\ emitLog[j].msg.full_translation = "a b"

----------------------------------------------------------------------------
(* ImageStitcher (src/src/stitcher.py).  An image is a sequence of pixel   *)
(* rows, one column wide; a row is its gray value, so the conversion to    *)
(* grayscale leaves it as it is.                                           *)

\* Python's seq[lo:hi] for 0-based bounds that may be negative or too large
Slice(seq, lo, hi) ==
    LET n == Len(seq)
        norm(k) == IF k < 0 THEN (IF k + n < 0 THEN 0 ELSE k + n)
                   ELSE (IF k > n THEN n ELSE k)
    IN  IF norm(lo) >= norm(hi) THEN <<>> ELSE SubSeq(seq, norm(lo) + 1, norm(hi))

\* np.vstack((a, b))
vstack(a, b) == a \o b

RECURSIVE SumUpTo(_, _)
\* seq[1] + ... + seq[n]
SumUpTo(seq, n) == IF n = 0 THEN 0 ELSE seq[n] + SumUpTo(seq, n - 1)

\* np.sum over the pixels
SumSeq(seq) == SumUpTo(seq, Len(seq))

\* the rows of area under the template placed at row y (0-based)
Window(area, template, y) == SubSeq(area, y + 1, y + Len(template))

\* n * sum((t - mean t)(w - mean w)): the numerator of TM_CCOEFF_NORMED
\* scaled by the number of pixels n
CcoeffNum(w, t) ==
    Len(t) * SumSeq([k \in 1..Len(t) |-> t[k] * w[k]]) - SumSeq(t) * SumSeq(w)

\* n * sum((t - mean t)^2)
CcoeffVar(t) ==
    Len(t) * SumSeq([k \in 1..Len(t) |-> t[k] * t[k]]) - SumSeq(t) * SumSeq(t)

\* TM_CCOEFF_NORMED(w, t) > 0.8, the score being num / sqrt(var t * var w)
\* (a zero denominator gives score 0)
ScoreAboveThreshold(w, t) ==
    /\ CcoeffNum(w, t) > 0
    /\ 25 * CcoeffNum(w, t) * CcoeffNum(w, t) > 16 * CcoeffVar(t) * CcoeffVar(w)

\* score of window w1 > score of window w2, both scores positive
ScoreGreater(w1, w2, t) ==
    CcoeffNum(w1, t) * CcoeffNum(w1, t) * CcoeffVar(w2)
        > CcoeffNum(w2, t) * CcoeffNum(w2, t) * CcoeffVar(w1)

\* the merge cropping the template height from img2 even without a match
\* the template of _stitch_two (stitcher.py:47-51): the bottom 20% of img1,
\* at least 10 rows
template_strip(img1) ==
    LET h1 == Len(img1)
        search_h == IF (h1 * 2) \div 10 < 10 THEN 10 ELSE (h1 * 2) \div 10
    IN  Slice(img1, h1 - search_h, h1)

stitch_two_CropsAnyway(img1, img2) ==
    LET h1 == Len(img1)
        h2 == Len(img2)
        search_h == IF (h1 * 2) \div 10 < 10 THEN 10 ELSE (h1 * 2) \div 10
        template == Slice(img1, h1 - search_h, h1)
        search_area == Slice(img2, 0, h2 \div 2)
        W(y) == Window(search_area, template, y)
        good == {y \in 0..(Len(search_area) - Len(template)) :
                    ScoreAboveThreshold(W(y), template)}
        \* cv2.minMaxLoc: the first position of the maximum
        match_y == CHOOSE y \in good :
                      \A z \in good \ {y} :
                          \/ ScoreGreater(W(y), W(z), template)
                          \/ (~ScoreGreater(W(z), W(y), template) /\ y < z)
        cut_index == match_y + search_h
    IN  IF Len(template) = 0 \/ Len(search_area) < Len(template)
        THEN vstack(img1, img2)      \* cv2.matchTemplate raises: the except branch
        ELSE IF good # {}
        THEN vstack(img1, Slice(img2, cut_index, h2))
        ELSE vstack(img1, Slice(img2, search_h, h2))

\* _stitch_two without its try/except: a matching error leaves no image
stitch_two_Unguarded(img1, img2) ==
    LET h1 == Len(img1)
        h2 == Len(img2)
        search_h == IF (h1 * 2) \div 10 < 10 THEN 10 ELSE (h1 * 2) \div 10
        template == template_strip(img1)
        search_area == Slice(img2, 0, h2 \div 2)
        W(y) == Window(search_area, template, y)
        good == {y \in 0..(Len(search_area) - Len(template)) :
                    ScoreAboveThreshold(W(y), template)}
        \* cv2.minMaxLoc: the first position of the maximum
        match_y == CHOOSE y \in good :
                      \A z \in good \ {y} :
                          \/ ScoreGreater(W(y), W(z), template)
                          \/ (~ScoreGreater(W(z), W(y), template) /\ y < z)
        cut_index == match_y + search_h
    IN  IF Len(template) = 0 \/ Len(search_area) < Len(template)
        THEN None
        ELSE IF good # {}
        THEN vstack(img1, Slice(img2, cut_index, h2))
        ELSE vstack(img1, img2)

\* ImageStitcher._stitch_two (stitcher.py:35-117): img1 above img2
stitch_two(img1, img2) ==
    LET h1 == Len(img1)
        h2 == Len(img2)
        search_h == IF (h1 * 2) \div 10 < 10 THEN 10 ELSE (h1 * 2) \div 10
        template == template_strip(img1)
        search_area == Slice(img2, 0, h2 \div 2)
        W(y) == Window(search_area, template, y)
        good == {y \in 0..(Len(search_area) - Len(template)) :
                    ScoreAboveThreshold(W(y), template)}
        \* cv2.minMaxLoc: the first position of the maximum
        match_y == CHOOSE y \in good :
                      \A z \in good \ {y} :
                          \/ ScoreGreater(W(y), W(z), template)
                          \/ (~ScoreGreater(W(z), W(y), template) /\ y < z)
        cut_index == match_y + search_h
    IN  IF Len(template) = 0 \/ Len(search_area) < Len(template)
        THEN vstack(img1, img2)      \* cv2.matchTemplate raises: the except branch
        ELSE IF good # {}
        THEN vstack(img1, Slice(img2, cut_index, h2))
        ELSE vstack(img1, img2)

RECURSIVE stitch_fold(_, _)
\* the loop of stitch_images (stitcher.py:27-32)
stitch_fold(result, rest) ==
    IF Len(rest) = 0 THEN result
    ELSE CHOOSE out \in {stitch_fold(merged, Tail(rest)) :
                             merged \in {stitch_two(result, Head(rest))}} : TRUE

\* ImageStitcher.stitch_images (stitcher.py:11-32)
stitch_images(images) ==
    IF Len(images) = 0 THEN None
    ELSE IF Len(images) = 1 THEN images[1]
    ELSE stitch_fold(images[1], Tail(images))

----------------------------------------------------------------------------
(* ScreenCapture (src/src/capture.py): one scrolling capture, and the      *)
(* calls that close the object.                                            *)

\* largest max_pages a scrolling capture is asked for
MaxPages == 6

\* number of close() calls made on one ScreenCapture
MaxCloses == 2

PageLimits == (0 - 1)..MaxPages

\* screen contents of the captured region: two rows of one pixel
Frames == {<<0, 0>>, <<3, 3>>, <<4, 2>>}

\* capture_region (capture.py:21-56) returns the image, or None after
\* catching whatever the grab raised
CaptureOutcomes == Frames \cup {None}

\* capture.py:142 `if mse < 10.0`
MseThreshold == 10

\* np.mean((a - b) ** 2) < 10.0 for images of the same shape
Similar(a, b) ==
    SumSeq([k \in 1..Len(a) |-> (a[k] - b[k]) * (a[k] - b[k])]) < MseThreshold * Len(a)

CaptureInit ==
    /\ PipelineInit(<<>>)
    /\ \E mp \in PageLimits : ScreenCaptureInit(mp)
    /\ StitchInit(<<>>)
    /\ TranslatorInit(DefaultConfig)
    /\ OcrInit(<<>>)

\* capture_scrolling_region up to the first page (capture.py:96-123); when
\* pyautogui cannot be imported, the single capture of the ImportError branch
capture_scrolling_region_first ==
    /\ sc_pc = "start"
    /\ \E imp \in {"ok", "ImportError"}, first_page \in CaptureOutcomes :
          /\ shots' = Append(shots, first_page)
          /\ IF imp = "ImportError"
             THEN /\ scroll_result' = first_page
                  /\ sc_pc' = "returned"
                  /\ UNCHANGED captured_images
             ELSE IF first_page = None
             THEN /\ scroll_result' = None
                  /\ sc_pc' = "returned"
                  /\ UNCHANGED captured_images
             ELSE /\ captured_images' = <<first_page>>
                  /\ sc_pc' = "loop"
                  /\ UNCHANGED scroll_result
    /\ UNCHANGED <<max_pages, loop_i, identical_count, in_context, sct_closes, pipelineVars,
                   stitchVars, translatorVars, ocrVars>>

\* range(max_pages) instead of range(max_pages - 1)
LoopExhausted_OffByOne == loop_i >= max_pages

\* `for i in range(max_pages - 1)` has no value left (capture.py:125)
LoopExhausted == loop_i >= max_pages - 1

\* the counter kept when new content is seen
CountAfter_NoReset(similar) == IF similar THEN identical_count + 1 ELSE identical_count

\* identical_count after the comparison (capture.py:142-152)
CountAfter(similar) == IF similar THEN identical_count + 1 ELSE 0

\* a failed page capture failing the whole call
OnCaptureFailed_Abort ==
    /\ sc_pc' = "returned"
    /\ scroll_result' = None

\* `if next_page is None: break` (capture.py:135-136)
OnCaptureFailed ==
    /\ sc_pc' = "stitch"
    /\ UNCHANGED scroll_result

\* the stopping capture appended before the loop is left
OnSimilarityStop_Appends(next_page) ==
    /\ sc_pc' = "stitch"
    /\ captured_images' = Append(captured_images, next_page)
    /\ UNCHANGED loop_i

\* `if identical_count >= 2: break` (capture.py:147-149): the loop is left
\* before `captured_images.append(next_page)` (154) is reached
OnSimilarityStop(next_page) ==
    /\ sc_pc' = "stitch"
    /\ UNCHANGED <<loop_i, captured_images>>

\* one pass of `for i in range(max_pages - 1)` (capture.py:125-154);
\* pyautogui.press may raise, which the outer except turns into None
capture_scrolling_region_page ==
    /\ sc_pc = "loop"
    /\ IF LoopExhausted
       THEN /\ sc_pc' = "stitch"
            /\ UNCHANGED <<loop_i, captured_images, identical_count, scroll_result, shots>>
       ELSE \E press \in {"ok", "raise"}, next_page \in CaptureOutcomes :
               IF press = "raise"
               THEN /\ scroll_result' = None
                    /\ sc_pc' = "returned"
                    /\ UNCHANGED <<loop_i, captured_images, identical_count, shots>>
               ELSE /\ shots' = Append(shots, next_page)
                    /\ IF next_page = None
                       THEN /\ OnCaptureFailed
                            /\ UNCHANGED <<loop_i, captured_images, identical_count>>
                       ELSE LET similar == Similar(next_page, Last(captured_images)) IN
                            /\ identical_count' = CountAfter(similar)
                            /\ UNCHANGED scroll_result
                            /\ IF similar /\ CountAfter(similar) >= 2
                               THEN OnSimilarityStop(next_page)
                               ELSE /\ captured_images' = Append(captured_images, next_page)
                                    /\ loop_i' = loop_i + 1
                                    /\ sc_pc' = "loop"
    /\ UNCHANGED <<max_pages, in_context, sct_closes, pipelineVars,
                   stitchVars, translatorVars, ocrVars>>

\* the stitching after the loop (capture.py:156-160)
capture_scrolling_region_stitch ==
    /\ sc_pc = "stitch"
    /\ scroll_result' = stitch_images(captured_images)
    /\ sc_pc' = "returned"
    /\ UNCHANGED <<max_pages, loop_i, captured_images, identical_count, shots,
                   in_context, sct_closes, pipelineVars,
                   stitchVars, translatorVars, ocrVars>>

\* the body of ScreenCapture.close (capture.py:178-181): self.sct is the
\* mss object made by __init__ and never reassigned, so `if self.sct` holds
ReleaseHandle == sct_closes' = sct_closes + 1

\* ScreenCapture.close called by the owner (the worker's cleanup)
close ==
    /\ sc_pc \in {"start", "returned"}
    /\ sct_closes < MaxCloses
    /\ ReleaseHandle
    /\ UNCHANGED <<sc_pc, max_pages, loop_i, captured_images, identical_count,
                   scroll_result, shots, in_context, pipelineVars,
                   stitchVars, translatorVars, ocrVars>>

\* ScreenCapture.__enter__ (capture.py:183-185)
enter_context ==
    /\ sc_pc = "start"
    /\ in_context = "out"
    /\ sct_closes = 0
    /\ in_context' = "in"
    /\ UNCHANGED <<sc_pc, max_pages, loop_i, captured_images, identical_count,
                   scroll_result, shots, sct_closes, pipelineVars,
                   stitchVars, translatorVars, ocrVars>>

\* ScreenCapture.__exit__ (capture.py:187-189)
exit_context ==
    /\ sc_pc \in {"start", "returned"}
    /\ in_context = "in"
    /\ sct_closes < MaxCloses
    /\ in_context' = "exited"
    /\ ReleaseHandle
    /\ UNCHANGED <<sc_pc, max_pages, loop_i, captured_images, identical_count,
                   scroll_result, shots, pipelineVars,
                   stitchVars, translatorVars, ocrVars>>

ScrollNext ==
    \/ capture_scrolling_region_first
    \/ capture_scrolling_region_page
    \/ capture_scrolling_region_stitch

CloseNext ==
    \/ close
    \/ enter_context
    \/ exit_context

CaptureNext == ScrollNext \/ CloseNext

CaptureSpec == CaptureInit /\ [][CaptureNext]_vars

\* a call of capture_scrolling_region keeps running: its captures, key
\* presses and sleeps return
FairCaptureSpec == CaptureSpec /\ WF_vars(ScrollNext)

----------------------------------------------------------------------------
(* The worker started with a process_scrolling_region command on its queue *)

ScrollCommand ==
    [type |-> "process_scrolling_region",
     region |-> [x |-> 0, y |-> 0, width |-> 15, height |-> 15]]

ScrollCmdInit ==
    /\ PipelineInit(<<[id |-> 1, cmd |-> ScrollCommand]>>)
    /\ IdleObjects

ScrollCmdSpec == ScrollCmdInit /\ [][Next]_vars

(* C16 as stated: a process_scrolling_region command the worker has        *)
(* received and finished with was answered by exactly one message, after   *)
(* the scrolling capture ran for it.                                       *)
C16_ScrollingCommandAnswered ==
    \A k \in DOMAIN deqSeq :
        (deqSeq[k].cmd.type = "process_scrolling_region" /\ Done(deqSeq[k].id))
        => /\ Cardinality(EmitsFor(deqSeq[k].id)) = 1
           /\ shots # <<>>

----------------------------------------------------------------------------
(* Definitions used by the properties about the scrolling capture *)

\* the k-th capture succeeded and is below the threshold against the one
\* immediately before it
SimilarAt(k) == k >= 2 /\ shots[k] # None /\ Similar(shots[k], shots[k - 1])

RECURSIVE TrailingSimilar(_)
\* number of consecutive captures, ending with the n-th, that are similar
\* to their predecessor
TrailingSimilar(n) == IF SimilarAt(n) THEN 1 + TrailingSimilar(n - 1) ELSE 0

\* seq without its last element
Front(seq) == SubSeq(seq, 1, Len(seq) - 1)

C18_StopsAtSecondConsecutiveSimilar ==
    /\ sc_pc = "loop"
       => /\ captured_images = shots
          /\ identical_count = TrailingSimilar(Len(shots))
          /\ identical_count < 2
    /\ \A k \in 3..(Len(shots) - 1) : ~(SimilarAt(k) /\ SimilarAt(k - 1))
    /\ sc_pc = "stitch"
       => \/ Last(shots) = None
          \/ TrailingSimilar(Len(shots)) = 2
          \/ Len(shots) >= max_pages

\* one similar capture, then new content, then two consecutive similar
\* captures stopped the loop before max_pages captures
C18_Witness ==
    /\ sc_pc = "stitch"
    /\ Len(shots) = 5
    /\ max_pages > 5
    /\ SimilarAt(2)
    /\ shots[3] # None
    /\ ~SimilarAt(3)
    /\ SimilarAt(4)
    /\ SimilarAt(5)
    /\ ~Similar(shots[5], shots[3])

(* C19: a failed capture is the last capture of the call, nothing is       *)
(* raised, and the call returns the stitched image of the pages captured   *)
(* before the failure (the empty value when the first capture failed).     *)
C19_FailureKeepsEarlierPages ==
    /\ \A k \in DOMAIN shots :
          shots[k] = None => (k = Len(shots) /\ sc_pc \in {"stitch", "returned"})
    /\ (sc_pc = "returned" /\ shots # <<>> /\ Last(shots) = None)
       => scroll_result = stitch_images(Front(shots))

\* the third capture failed and the first two pages were returned stitched
C19_Witness ==
    /\ sc_pc = "returned"
    /\ Len(shots) = 3
    /\ shots[3] = None
    /\ scroll_result = vstack(shots[1], shots[2])

(* C20 as stated: over any sequence of close() calls the underlying        *)
(* handle's release is performed at most once.                             *)
C20_HandleReleasedOnce == sct_closes <= 1

----------------------------------------------------------------------------
(* ImageStitcher.stitch_images called on the captures of a scrolled page   *)

\* largest number of images stitch_images is called with
MaxImages == 6

\* heights of the captures
Heights == {8, 20, 24}

\* rows the page moves between two captures
ScrollSteps == {10, 12, 20}

Pages == {"text", "band"}

\* gray value of row k of a page: the "text" page has no two equal bands,
\* the "band" page has a uniform band in rows 11..20
Row(page, k) ==
    IF page = "band" /\ k \in 11..20 THEN 0
    ELSE ((k * k) \div 7 + k \div 3) % 3

\* the n captures of height h of a page scrolled by step rows each time
Captures(page, h, step, n) ==
    [c \in 1..n |-> [k \in 1..h |-> Row(page, (c - 1) * step + k)]]

\* two captures of different heights: h1 rows from the top of the page, then
\* h2 rows after scrolling by step rows
Pair(page, h1, h2, step) ==
    <<[k \in 1..h1 |-> Row(page, k)], [k \in 1..h2 |-> Row(page, step + k)]>>

StitcherInit ==
    /\ PipelineInit(<<>>)
    /\ ScreenCaptureInit(DefaultMaxPages)
    /\ TranslatorInit(DefaultConfig)
    /\ OcrInit(<<>>)
    /\ \/ \E page \in Pages, h \in Heights, step \in ScrollSteps, n \in 0..MaxImages :
             StitchInit(Captures(page, h, step, n))
       \/ \E page \in Pages, h1 \in Heights, h2 \in Heights, step \in ScrollSteps :
             StitchInit(Pair(page, h1, h2, step))

\* stitch_images merging a single image with itself
stitch_images_start_MergesSingle ==
    /\ st_pc = "start"
    /\ IF Len(st_images) = 0
       THEN /\ st_result' = None
            /\ st_pc' = "returned"
            /\ UNCHANGED <<st_i, merges>>
       ELSE IF Len(st_images) = 1
       THEN /\ st_result' = stitch_two(st_images[1], st_images[1])
            /\ merges' = Append(merges, [img1 |-> st_images[1], img2 |-> st_images[1],
                                         out |-> stitch_two(st_images[1], st_images[1])])
            /\ st_pc' = "returned"
            /\ UNCHANGED st_i
       ELSE /\ st_result' = st_images[1]
            /\ st_i' = 1
            /\ st_pc' = "loop"
            /\ UNCHANGED merges
    /\ UNCHANGED <<st_images, pipelineVars, captureVars, translatorVars, ocrVars>>

\* stitch_images up to its loop (stitcher.py:21-27)
stitch_images_start ==
    /\ st_pc = "start"
    /\ IF Len(st_images) = 0
       THEN /\ st_result' = None
            /\ st_pc' = "returned"
            /\ UNCHANGED <<st_i, merges>>
       ELSE IF Len(st_images) = 1
       THEN /\ st_result' = st_images[1]
            /\ st_pc' = "returned"
            /\ UNCHANGED <<st_i, merges>>
       ELSE /\ st_result' = st_images[1]
            /\ st_i' = 1
            /\ st_pc' = "loop"
            /\ UNCHANGED merges
    /\ UNCHANGED <<st_images, pipelineVars, captureVars, translatorVars, ocrVars>>

\* stitch_images merging each capture with the capture before it, not with
\* the running result
stitch_images_merge_PreviousCapture ==
    /\ st_pc = "loop"
    /\ st_i < Len(st_images)
    /\ st_result' = stitch_two(st_images[st_i], st_images[st_i + 1])
    /\ merges' = Append(merges, [img1 |-> st_images[st_i], img2 |-> st_images[st_i + 1],
                                 template |-> template_strip(st_images[st_i]),
                                 out |-> stitch_two(st_images[st_i], st_images[st_i + 1])])
    /\ st_i' = st_i + 1
    /\ st_pc' = IF st_i + 1 < Len(st_images) THEN "loop" ELSE "returned"
    /\ UNCHANGED <<st_images, pipelineVars, captureVars, translatorVars, ocrVars>>

\* one pass of `for i in range(1, len(images))`, and the return after the
\* last one (stitcher.py:29-32)
stitch_images_merge ==
    /\ st_pc = "loop"
    /\ st_i < Len(st_images)
    /\ st_result' = stitch_two(st_result, st_images[st_i + 1])
    /\ merges' = Append(merges, [img1 |-> st_result, img2 |-> st_images[st_i + 1],
                                 template |-> template_strip(st_result),
                                 out |-> stitch_two(st_result, st_images[st_i + 1])])
    /\ st_i' = st_i + 1
    /\ st_pc' = IF st_i + 1 < Len(st_images) THEN "loop" ELSE "returned"
    /\ UNCHANGED <<st_images, pipelineVars, captureVars, translatorVars, ocrVars>>

StitchNext ==
    \/ stitch_images_start
    \/ stitch_images_merge

StitchSpec == StitcherInit /\ [][StitchNext]_vars

----------------------------------------------------------------------------
(* Definitions used by the properties about the stitcher *)

\* the bottom 20% strip of a, at least 10 rows
BottomStrip(a) ==
    LET n == IF (Len(a) * 2) \div 10 < 10 THEN 10 ELSE (Len(a) * 2) \div 10
    IN  SubSeq(a, Len(a) - n + 1, Len(a))

\* the top 50% of b
TopHalf(b) == SubSeq(b, 1, Len(b) \div 2)

\* the rows (0-based) of the top 50% of b at which the bottom strip of a
\* occurs exactly
ExactAt(a, b) ==
    {y \in 0..(Len(TopHalf(b)) - Len(BottomStrip(a))) :
        Window(TopHalf(b), BottomStrip(a), y) = BottomStrip(a)}

\* the rows (0-based) of the top 50% of b at which the strip the merge
\* takes from a scores above 0.80
MatchesAt(a, b) ==
    LET n == IF (Len(a) * 2) \div 10 < 10 THEN 10 ELSE (Len(a) * 2) \div 10
        strip == Slice(a, Len(a) - n, Len(a))
    IN  {y \in 0..(Len(TopHalf(b)) - Len(strip)) :
            ScoreAboveThreshold(Window(TopHalf(b), strip, y), strip)}

\* b without its rows up to and including the last row of the strip at y
AfterStrip(a, b, y) == SubSeq(b, y + Len(BottomStrip(a)) + 1, Len(b))

(* C21: stitch_images([]) returns None and stitch_images([img]) returns    *)
(* img itself, in both cases without a merge.                              *)
C21_EmptyAndSingle ==
    (st_pc = "returned" /\ Len(st_images) <= 1)
    => /\ merges = <<>>
       /\ st_result = IF Len(st_images) = 0 THEN None ELSE st_images[1]

\* a single capture of 20 rows came back unchanged
C21_Witness ==
    /\ st_pc = "returned"
    /\ Len(st_images) = 1
    /\ Len(st_result) = 20
    /\ st_result = st_images[1]
    /\ merges = <<>>

RECURSIVE DedupUpTo(_, _)
\* the first n images with each band that ends an image kept once
DedupUpTo(images, n) ==
    IF n = 1 THEN images[1]
    ELSE DedupUpTo(images, n - 1)
            \o AfterStrip(images[n - 1], images[n],
                          CHOOSE y \in ExactAt(images[n - 1], images[n]) :
                              \A z \in ExactAt(images[n - 1], images[n]) : y <= z)

----------------------------------------------------------------------------
(* Translator: construction, translate and translate_batch *)

\* the configurations config.json can hold (translator.py:42-56, 66, 75)
Configs ==
    [translation_engine : {"gemini", "google"}, gemini_api_key : BOOLEAN,
     gemini_mode : {"vision", "text"}]

\* Translator._init_google_translate (translator.py:139-156); goo_ok is
\* whether deep_translator imports and GoogleTranslator constructs
init_google_translate(self, as_backup, goo_ok) ==
    IF goo_ok
    THEN IF as_backup
         THEN [self EXCEPT !.translator = TRUE]
         ELSE [self EXCEPT !.translator = TRUE, !.gemini_model = FALSE,
                           !.engine_type = "google"]
    ELSE IF as_backup
         THEN [self EXCEPT !.translator = FALSE]
         ELSE [self EXCEPT !.translator = FALSE, !.gemini_model = FALSE]

\* Translator._init_gemini (translator.py:58-137): the object it leaves and
\* the number of times it called _init_google_translate. genai is whether
\* google.generativeai imports, model what configure and GenerativeModel do
init_gemini(self, cfg, genai, goo_ok, model) ==
    IF genai = "ImportError"
    THEN [obj |-> [self EXCEPT !.engine_type = "google"], google_inits |-> 0]
    ELSE LET backed == init_google_translate(self, TRUE, goo_ok)
         IN  [google_inits |-> 1,
              obj |-> IF ~cfg.gemini_api_key
                      THEN [backed EXCEPT !.engine_type = "google"]
                      ELSE IF model = "configure_raises"
                      THEN [backed EXCEPT !.engine_type = "google"]
                      ELSE IF model = "model_raises"
                      THEN [backed EXCEPT !.gemini_mode = cfg.gemini_mode,
                                          !.engine_type = "google"]
                      ELSE [backed EXCEPT !.gemini_mode = cfg.gemini_mode,
                                          !.gemini_model = TRUE]]

\* Translator.__init__ (translator.py:14-40)
Translator_init ==
    /\ t_pc = "new"
    /\ \E genai \in {"ok", "ImportError"}, goo_ok \in BOOLEAN,
          model \in {"ok", "configure_raises", "model_raises"} :
          LET self == [translator_obj EXCEPT !.engine_type = config.translation_engine]
              made == IF self.engine_type = "gemini"
                      THEN init_gemini(self, config, genai, goo_ok, model)
                      ELSE [obj |-> init_google_translate(self, FALSE, goo_ok),
                            google_inits |-> 1]
          IN  /\ translator_obj' = made.obj
              /\ google_inits' = google_inits + made.google_inits
    /\ t_pc' = "ready"
    /\ UNCHANGED <<config, last_call, pipelineVars, captureVars, stitchVars, ocrVars>>

\* one call of Translator.translate on the constructed object
call_translate ==
    /\ t_pc = "ready"
    /\ \E text \in Texts, img \in Images, prompt \in Prompts,
          vis \in ResponseOutcomes, gem \in ResponseOutcomes, goo \in GoogleOutcomes :
          last_call' = [op |-> "translate", text |-> text, image |-> img,
                        prompt |-> prompt,
                        out |-> translate(translator_obj, text, img, prompt, vis, gem, goo)]
    /\ t_pc' = "returned"
    /\ UNCHANGED <<config, translator_obj, google_inits,
                   pipelineVars, captureVars, stitchVars, ocrVars>>

\* the lists of at most MaxBatch elements of S
SeqsUpTo(S) == UNION {[1..n -> S] : n \in 0..MaxBatch}

\* one call of Translator.translate_batch on the constructed object
call_translate_batch ==
    /\ t_pc = "ready"
    /\ \E texts \in SeqsUpTo(Texts) :
          \E gems \in [1..Len(texts) -> ResponseOutcomes],
             goos \in [1..Len(texts) -> GoogleOutcomes] :
             last_call' = [op |-> "translate_batch", texts |-> texts,
                           gems |-> gems, goos |-> goos,
                           ret |-> translate_batch(translator_obj, texts, gems, goos)]
    /\ t_pc' = "returned"
    /\ UNCHANGED <<config, translator_obj, google_inits,
                   pipelineVars, captureVars, stitchVars, ocrVars>>

\* the caller takes the value returned; the object is ready for its next call
\* (translate and translate_batch assign no attribute of the object)
call_returns ==
    /\ t_pc = "returned"
    /\ t_pc' = "ready"
    /\ last_call' = [op |-> "none"]
    /\ UNCHANGED <<config, translator_obj, google_inits,
                   pipelineVars, captureVars, stitchVars, ocrVars>>

TranslatorSpecInit ==
    /\ PipelineInit(<<>>)
    /\ ScreenCaptureInit(DefaultMaxPages)
    /\ StitchInit(<<>>)
    /\ OcrInit(<<>>)
    /\ \E cfg \in Configs : TranslatorInit(cfg)

TranslatorNext ==
    Translator_init \/ call_translate \/ call_translate_batch \/ call_returns

TranslatorSpec == TranslatorSpecInit /\ [][TranslatorNext]_vars

----------------------------------------------------------------------------
(* Properties of the Translator *)

\* the engines called, as a set
Called(out) == {out.order[i] : i \in 1..Len(out.order)}

\* answers after which the next engine is asked
Failed == {"blocked", "raise"}

\* every order the engines can be asked in: vision request, text request,
\* secondary engine, each optional, never reordered
FixedOrders ==
    {<<>>, <<"secondary">>, <<"primary">>, <<"primary", "secondary">>, <<"vision">>,
     <<"vision", "primary">>, <<"vision", "primary", "secondary">>}

\* C25: is_available() is false exactly when neither the Gemini model nor the
\* Google translator was constructed, and translate then returns its text
\* unchanged without calling an engine, whatever the image and the prompt
C25_UnavailableIsIdentity ==
    /\ t_pc # "new" =>
          (~is_available(translator_obj)
              <=> (~translator_obj.gemini_model /\ ~translator_obj.translator))
    /\ (last_call.op = "translate" /\ ~is_available(translator_obj)) =>
          /\ last_call.out.ret = last_call.text
          /\ last_call.out.order = <<>>

C25_Witness ==
    /\ last_call.op = "translate"
    /\ ~is_available(translator_obj)
    /\ last_call.text = "a"
    /\ last_call.image # NoImage
    /\ last_call.prompt # NoPrompt
    /\ last_call.out.ret = "a"

\* C26: translate never raises an engine's failure; a text request that raises
\* or is blocked is followed by the secondary engine, whose answer is
\* returned, or the input text when the secondary engine raises or was never
\* constructed; the engines are asked in one fixed order, a later one only
\* after the earlier one failed
C26_FallbackChain ==
    last_call.op = "translate" =>
        LET r == last_call.out
        IN  /\ ~r.raised
            /\ r.order \in FixedOrders
            /\ {"vision", "primary"} \subseteq Called(r) => r.vision \in Failed
            /\ {"primary", "secondary"} \subseteq Called(r) => r.primary \in Failed
            /\ (translator_obj.engine_type = "gemini" /\ translator_obj.gemini_model
                   /\ r.order # <<>>) => r.order[1] \in {"vision", "primary"}
            /\ r.primary \in Failed =>
                  /\ "secondary" \in Called(r)
                  /\ r.secondary = "text" => r.ret = "vi:" \o last_call.text
                  /\ r.secondary \in {"raise", "none"} => r.ret = last_call.text

C26_Witness ==
    /\ last_call.op = "translate"
    /\ last_call.text = "a"
    /\ last_call.out.primary = "blocked"
    /\ last_call.out.secondary = "raise"
    /\ last_call.out.order = <<"primary", "secondary">>
    /\ last_call.out.ret = "a"

\* C27: when the text request answers a non-empty input with an empty or
\* whitespace-only text, translate does not return the empty string: the
\* secondary engine is asked
C27_BlankPrimaryFallsBack ==
    (last_call.op = "translate" /\ last_call.out.primary = "blank") =>
        /\ last_call.out.ret # ""
        /\ "secondary" \in Called(last_call.out)

\* C28: whenever the configured engine is Gemini, the construction of the
\* Google translator is attempted, on every path through the initialization
C28_BackupAlwaysAttempted ==
    (t_pc # "new" /\ config.translation_engine = "gemini") => google_inits >= 1

\* C29: when translate is called with an image in vision mode and the vision
\* request is blocked, empty or raises, the text request follows with the same
\* prompt override, then the secondary engine, then the input text
C29_VisionFallsBackInOrder ==
    (last_call.op = "translate" /\ last_call.image # NoImage
        /\ last_call.out.vision \in Failed \cup {"blank"}) =>
        LET r == last_call.out
        IN  /\ r.order \in {<<"vision", "primary">>, <<"vision", "primary", "secondary">>}
            /\ r.primary_prompt = r.vision_prompt
            /\ r.primary \in Failed => r.order = <<"vision", "primary", "secondary">>
            /\ (r.primary \in Failed /\ r.secondary # "text") => r.ret = last_call.text

\* C30: translate_batch of the empty list is the empty list; otherwise the
\* result is as long as the input and its i-th element is what translate
\* returns for the i-th input alone, in the same order
C30_BatchIsElementwise ==
    last_call.op = "translate_batch" =>
        /\ last_call.texts = <<>> => last_call.ret = <<>>
        /\ Len(last_call.ret) = Len(last_call.texts)
        /\ \A i \in 1..Len(last_call.texts) :
              last_call.ret[i] =
                  translate(translator_obj, last_call.texts[i], NoImage, NoPrompt,
                            "unused", last_call.gems[i], last_call.goos[i]).ret

C30_Witness ==
    /\ last_call.op = "translate_batch"
    /\ translator_obj.engine_type = "gemini"
    /\ translator_obj.gemini_model
    /\ last_call.texts = <<"", "a">>
    /\ last_call.gems[2] = "text"
    /\ last_call.ret = <<"", "gm:a">>

----------------------------------------------------------------------------
(* The result queue seen from the UI *)

\* the UI's 50 ms timer keeps firing while the event loop runs, and the
\* worker process keeps being scheduled
PollingSpec == Spec /\ WF_vars(check_results) /\ WF_vars(WorkerNext)

\* the messages put on the result queue, in emission order
Emitted == [i \in 1..Len(emitLog) |-> emitLog[i].msg]

\* C31 as stated: every emitted message is handled exactly once and in
\* emission order while the UI polls, and every poll of check_results leaves
\* the result queue empty
C31_EveryPollDrainsAll ==
    /\ [](handled \o result_queue = Emitted)
    /\ [][handled' # handled => result_queue' = <<>>]_vars
    /\ \A n \in 1..(MaxCmds + 1) :
          (Len(emitLog) >= n) ~> (Len(handled) >= n \/ ui # "running")

\* C31: every emitted message is passed to handle_result exactly once and in
\* emission order while the UI polls; a poll of check_results handles one or
\* more queued messages from the head of the queue, in order, and what it
\* leaves (when handle_result raised) is handled by a later poll
C31_HandledOnceInOrder ==
    /\ [](handled \o result_queue = Emitted)
    /\ [][handled' # handled =>
              \E n \in 1..Len(result_queue) :
                  /\ handled' = handled \o SubSeq(result_queue, 1, n)
                  /\ result_queue' = SubSeq(result_queue, n + 1, Len(result_queue))]_vars
    /\ \A n \in 1..(MaxCmds + 1) :
          (Len(emitLog) >= n) ~> (Len(handled) >= n \/ ui # "running")

\* a poll has stopped on a raising handler with a message still queued, and
\* a later poll has handled it
C31_Witness ==
    /\ ui = "running"
    /\ Len(handled) >= 2
    /\ handled = Emitted

----------------------------------------------------------------------------
(* Shutdown seen from the UI *)

\* pipeline.join(timeout=2) returns within its timeout; nothing is assumed
\* about the worker, which may never take another step
QuitSpec == Spec /\ WF_vars(quit_app_join)

\* C32: quit_app puts shutdown on the command queue, waits in join for a
\* bounded time and then always goes on to app.quit(), whether the worker has
\* stopped, is still processing a command, or never stops
C32_QuitAlwaysProceeds ==
    /\ [](ui # "running" => (enqSeq # <<>> /\ Last(enqSeq).cmd.type = "shutdown"))
    /\ (ui = "joining") ~> (ui = "quit")

\* the UI has quit while the worker was still processing a command
C32_Witness ==
    /\ ui = "quit"
    /\ Processing
    /\ Last(enqSeq).cmd.type = "shutdown"

----------------------------------------------------------------------------
(* The worker's providers *)

\* C33: the capture, recognition and translation providers are constructed
\* once, by initialize_engines, which never runs again, and no command the
\* worker gets afterwards replaces, re-creates or destroys them: they stay as
\* they are until the cleanup behind the command loop
C33_ProvidersOwnedForLifetime ==
    /\ [][pc # "init" => pc' # "init"]_vars
    /\ [][pc \notin {"init", "cleanup"} => providerVars' = providerVars]_vars

\* the worker has taken a reload_config and finished a process_region, and
\* waits for the next command with the providers initialization gave it
C33_Witness ==
    /\ pc = "loop"
    /\ InitComplete
    /\ \E k \in DOMAIN deqSeq : deqSeq[k].cmd.type = "reload_config"
    /\ \E k \in DOMAIN deqSeq : deqSeq[k].cmd.type = "process_region" /\ Done(deqSeq[k].id)
    /\ screen_capture = "open"
    /\ ocr_engine
    /\ translator \in TranslatorConfigs

----------------------------------------------------------------------------
(* Properties of the stitcher, continued *)

\* C34: stitch_images on n >= 2 images is a left fold of the pairwise merge:
\* exactly n-1 merges in list order, each of the running result with the next
\* image, the template strip of each merge being the bottom 20% of the running
\* result, and the value returned being the result of the last merge
C34_LeftFold ==
    (st_pc = "returned" /\ Len(st_images) >= 2) =>
        /\ Len(merges) = Len(st_images) - 1
        /\ \A k \in 1..Len(merges) :
              LET acc == IF k = 1 THEN st_images[1] ELSE merges[k - 1].out
              IN  /\ merges[k].img1 = acc
                  /\ merges[k].img2 = st_images[k + 1]
                  /\ merges[k].template = template_strip(acc)
                  /\ merges[k].out = stitch_two(acc, st_images[k + 1])
        /\ st_result = merges[Len(merges)].out
        /\ st_result = stitch_fold(st_images[1], Tail(st_images))

\* a fold of more than two images in which the template taken from the
\* running result is not the one the previous capture alone would give
C34_Witness ==
    /\ st_pc = "returned"
    /\ Len(st_images) >= 3
    /\ Len(merges) = Len(st_images) - 1
    /\ \E k \in 2..Len(merges) : merges[k].template # template_strip(st_images[k])

----------------------------------------------------------------------------
(* OCREngine.detect_and_recognize *)

\* the most boxes image_to_data reports for one image
MaxBoxes == 2
\* the native confidences it reports: -1 for structure blocks, else 0..100
NativeConfs == {-1, 0, 50, 100}
\* the texts it reports, as sequences of characters
BoxTexts == {<<>>, <<" ">>, <<"a">>, <<" ", "a", " ">>}

\* the lists of at most MaxBoxes boxes
BoxLists == UNION {[1..n -> [conf : NativeConfs, text : BoxTexts]] : n \in 0..MaxBoxes}

RECURSIVE lstrip(_)
\* str.lstrip on a sequence of characters
lstrip(t) ==
    IF Len(t) = 0 THEN t
    ELSE IF Head(t) = " " THEN lstrip(Tail(t)) ELSE t

RECURSIVE rstrip(_)
\* str.rstrip on a sequence of characters
rstrip(t) ==
    IF Len(t) = 0 THEN t
    ELSE IF t[Len(t)] = " " THEN rstrip(SubSeq(t, 1, Len(t) - 1)) ELSE t

\* str.strip, as in `data['text'][i].strip()` (ocr_engine.py:96)
strip(t) == rstrip(lstrip(t))

\* the span appended for box i (ocr_engine.py:95-112); the confidence
\* conf / 100.0 is kept as the fraction num / den
Span(data, i) ==
    [box |-> i, text |-> strip(data[i].text),
     confidence |-> [num |-> data[i].conf, den |-> 100]]

\* detect_and_recognize keeping the boxes of confidence 0 too
detect_and_recognize_KeepsZero(data, raises) ==
    IF raises
    THEN <<>>
    ELSE LET kept == SelectSeq([i \in 1..Len(data) |-> i],
                               LAMBDA i : data[i].conf >= 0 /\ strip(data[i].text) # <<>>)
         IN  [k \in 1..Len(kept) |-> Span(data, kept[k])]

\* OCREngine.detect_and_recognize (ocr_engine.py:64-118): the spans of the
\* boxes with `conf > 0 and text`, in box order; [] when anything raises
detect_and_recognize(data, raises) ==
    IF raises
    THEN <<>>
    ELSE LET kept == SelectSeq([i \in 1..Len(data) |-> i],
                               LAMBDA i : data[i].conf > 0 /\ strip(data[i].text) # <<>>)
         IN  [k \in 1..Len(kept) |-> Span(data, kept[k])]

\* one call of detect_and_recognize; the recognition engine may raise
call_detect_and_recognize ==
    /\ ocr_pc = "start"
    /\ \E raises \in BOOLEAN :
          /\ ocr_raised' = raises
          /\ ocr_ret' = detect_and_recognize(ocr_data, raises)
    /\ ocr_pc' = "returned"
    /\ UNCHANGED <<ocr_data, pipelineVars, captureVars, stitchVars, translatorVars>>

OcrSpecInit ==
    /\ PipelineInit(<<>>)
    /\ ScreenCaptureInit(DefaultMaxPages)
    /\ StitchInit(<<>>)
    /\ TranslatorInit(DefaultConfig)
    /\ \E data \in BoxLists : OcrInit(data)

OcrNext == call_detect_and_recognize

OcrSpec == OcrSpecInit /\ [][OcrNext]_vars

\* C35: detect_and_recognize returns only spans with non-empty trimmed text
\* and native confidence > 0, in box order; each returned confidence is the
\* native confidence / 100, so within (0, 1] for native confidences in
\* 0..100; when the recognition engine raises, the result is the empty list
C35_SpansFilteredAndNormalized ==
    ocr_pc = "returned" =>
        /\ ocr_raised => ocr_ret = <<>>
        /\ \A k \in 1..Len(ocr_ret) :
              LET s == ocr_ret[k]
                  native == ocr_data[s.box].conf
              IN  /\ s.box \in 1..Len(ocr_data)
                  /\ k > 1 => ocr_ret[k - 1].box < s.box
                  /\ s.text # <<>>
                  /\ Head(s.text) # " " /\ s.text[Len(s.text)] # " "
                  /\ native > 0
                  /\ s.confidence.num * 100 = native * s.confidence.den
                  /\ native \in 0..100 =>
                        (0 < s.confidence.num /\ s.confidence.num <= s.confidence.den)

\* a box of confidence 0 and a box with blank text were left out, and a box of
\* confidence 100 with padded text was returned trimmed with confidence 1
C35_Witness ==
    /\ ocr_pc = "returned"
    /\ ~ocr_raised
    /\ Len(ocr_data) = 2
    /\ ocr_data[1].conf = 0
    /\ ocr_data[2] = [conf |-> 100, text |-> <<" ", "a", " ">>]
    /\ ocr_ret = <<[box |-> 2, text |-> <<"a">>, confidence |-> [num |-> 100, den |-> 100]]>>

----------------------------------------------------------------------------
(* Initialization and cleanup of the worker *)

InitTypes == {"init_complete", "init_error"}

\* C36: the worker emits exactly one initialization message, init_complete or
\* init_error, and it is the first message on the result queue: nothing is
\* emitted and no command is taken while initialization runs, whatever is
\* queued already, and no later message is an initialization message
C36_OneInitMessageFirst ==
    /\ pc = "init" => (emitLog = <<>> /\ deqSeq = <<>>)
    /\ pc # "init" =>
          /\ emitLog # <<>>
          /\ emitLog[1].msg.type \in InitTypes
          /\ \A i \in 2..Len(emitLog) : emitLog[i].msg.type \notin InitTypes
          /\ Cardinality({i \in DOMAIN emitLog : emitLog[i].msg.type \in InitTypes}) = 1

\* the first command was answered behind init_complete
C36_Witness ==
    /\ Len(emitLog) >= 2
    /\ emitLog[1].msg.type = "init_complete"
    /\ emitLog[2].msg.type \in {"result", "error"}
    /\ emitLog[2].cmd = 1

\* C37: whenever the worker is stopped, a capture provider that was
\* constructed has been closed, by the one cleanup step behind the command
\* loop and by no other step, after a shutdown command as well as after an
\* initialization failure behind the provider's construction
C37_CaptureProviderClosedOnce ==
    /\ []((pc = "stopped" /\ screen_capture # "none") => screen_capture = "closed")
    /\ [][(screen_capture # "closed" /\ screen_capture' = "closed")
              => (screen_capture = "open" /\ pc = "cleanup" /\ pc' = "stopped")]_vars
    /\ [][screen_capture = "closed" => (screen_capture' = "closed" /\ pc' = "stopped")]_vars

\* the recognition provider failed to construct behind the capture provider,
\* and the worker stopped with the capture provider closed
C37_Witness ==
    /\ pc = "stopped"
    /\ InitFailed
    /\ deqSeq = <<>>
    /\ ~ocr_engine
    /\ screen_capture = "closed"

----------------------------------------------------------------------------
(* The pairwise merge *)

----------------------------------------------------------------------------
(* The images the scrolling capture hands to the stitcher *)

\* C39: when the loop stops on similarity after c captures, the capture that
\* triggered the stop is not appended but the first of the two consecutive
\* similar captures is: the list handed to the stitcher is the first c-1
\* captures in capture order; and whenever the first capture succeeded the
\* list handed to the stitcher is not empty
C39_StoppingCaptureNotAppended ==
    /\ identical_count >= 2 =>
          /\ sc_pc \in {"stitch", "returned"}
          /\ SimilarAt(Len(shots)) /\ SimilarAt(Len(shots) - 1)
          /\ Len(captured_images) = Len(shots) - 1
          /\ captured_images = Front(shots)
          /\ Last(captured_images) = shots[Len(shots) - 1]
    /\ sc_pc = "stitch" =>
          /\ captured_images # <<>>
          /\ captured_images[1] = shots[1]
          /\ \A k \in DOMAIN captured_images : captured_images[k] = shots[k]

\* the shortest similarity stop: three captures, two images stitched
C39_Witness ==
    /\ sc_pc = "returned"
    /\ identical_count = 2
    /\ Len(shots) = 3
    /\ captured_images = <<shots[1], shots[2]>>
    /\ scroll_result = stitch_images(captured_images)

----------------------------------------------------------------------------
(* Blank text *)

\* C40: translate called with an empty or whitespace-only text returns the
\* text unchanged and calls no engine, neither the vision request, the text
\* request nor the secondary engine, whatever engines are constructed
C40_BlankTextCallsNoEngine ==
    (last_call.op = "translate" /\ last_call.text \in BlankTexts) =>
        /\ last_call.out.ret = last_call.text
        /\ last_call.out.order = <<>>
        /\ last_call.out.vision = "unused"
        /\ last_call.out.primary = "unused"
        /\ last_call.out.secondary = "unused"

\* whitespace-only text given, with an image, to a Translator with both
\* engines constructed
C40_Witness ==
    /\ last_call.op = "translate"
    /\ last_call.text = " "
    /\ last_call.image # NoImage
    /\ translator_obj.engine_type = "gemini"
    /\ translator_obj.gemini_model
    /\ translator_obj.gemini_mode = "vision"
    /\ translator_obj.translator
    /\ last_call.out.ret = " "

====
